---- MODULE Spec2Model ----
(***************************************************************************)
(* Model of the monthly status report updaters: the five per-report       *)
(* updaters (agents/*.py), the orchestrator (update_msrs.py) and the      *)
(* timesheet aggregation (utils/timesheet_parser.py).                     *)
(*                                                                         *)
(* Hours are exact quantities (integers); IEEE rounding of Python floats  *)
(* is not modelled.  A workbook is a function from sheet names to sheets, *)
(* a sheet a grid of cell values and a grid of cell fills.                *)
(***************************************************************************)
EXTENDS Integers, Sequences, FiniteSets, TLC

VARIABLES
  report,      \* the report variant the updater calls of this run are for
  mappings,    \* config/employee_mappings.json, flattened to (employee, charge code) entries
  disk,        \* the file system: path -> file
  pc,          \* position of the running updater call in its program (0: no call running)
  call,        \* arguments of the running (or last) updater call
  mem,         \* what the running call holds in memory: workbook, updates, total_hours
  history,     \* the finished updater calls, oldest first; a further call is made
               \* (a re-run) only when the last one returned normally
  orch,        \* a run of update_all_msrs: its position, its arguments, its results
  source,      \* the aggregation's input: "csv" (the export) or "api" (the records)
  rows,        \* the CSV rows, or the timesheet records, read so far
  employees,   \* the aggregation: employee -> charge code -> hours
  applied,     \* one call of a function of the period and column location:
               \* its arguments and, once it returned, its result
  wsr          \* a run of rollup_monthly on the weekly status report: its position,
               \* its arguments, the open workbook, the files, what it computed

updVars == <<report, mappings, disk, pc, call, mem, history>>
aggVars == <<source, rows, employees>>
orchVars == <<orch>>
fnVars == <<applied>>
wsrVars == <<wsr>>
vars == <<report, mappings, disk, pc, call, mem, history, orch, source, rows, employees,
          applied, wsr>>

----------------------------------------------------------------------------
(* Bounds of the model *)

MaxCalls == 2
MaxRows == 3

----------------------------------------------------------------------------
(* Cell values and fills (openpyxl cell.value / cell.fill) *)

None == [kind |-> "none", s |-> "", n |-> 0]
Str(s) == [kind |-> "str", s |-> s, n |-> 0]
Num(n) == [kind |-> "num", s |-> "", n |-> n]
Date(y, m) == [kind |-> "date", s |-> "", n |-> (y * 12) + (m - 1)]

NoFill == "none"
ACTUAL_FILL == "B4C6E7"
highlight_fill == "D9E2F3"

Rows == 1 .. 5
Cols == 1 .. 3
Cells == Rows \X Cols

Reports == {"TO1", "TO4", "TO6", "TO8", "Emmett"}

\* config/msr_settings.json
sheet_settings == [status_row |-> 1, date_header_row |-> 2,
                   fill_range |-> [start |-> 1, end |-> 4]]

settings ==
  [TO1 |-> [sheet_name |-> "Extension Period MSR", status_row |-> 1,
            date_header_row |-> 2, total_row |-> 5],
   TO6 |-> [sheet_name |-> "Option 4 MSR", status_row |-> 1, date_header_row |-> 2],
   Emmett |-> [sheet_name |-> "Magni HA", status_row |-> 1, date_header_row |-> 2],
   TO8 |-> [sheets |-> << [name |-> "CLIN 0001AA", settings |-> sheet_settings],
                          [name |-> "CLIN 0002AA", settings |-> sheet_settings] >>],
   TO4 |-> [sheets |-> << [name |-> "CLIN 0001AD", settings |-> sheet_settings],
                          [name |-> "CLIN 0002AD", settings |-> sheet_settings] >>]]

\* the sheets a report variant works on, in the order it takes them
SheetsOf(R) ==
  CASE R = "TO1"    -> << "Extension Period MSR" >>
    [] R = "TO6"    -> << "Option 4 MSR" >>
    [] R = "Emmett" -> << settings.Emmett.sheet_name >>
    [] R = "TO8"    -> << settings.TO8.sheets[1].name, settings.TO8.sheets[2].name >>
    [] R = "TO4"    -> << settings.TO4.sheets[1].name, settings.TO4.sheets[2].name >>

StatusRowOf(R, i) ==
  CASE R = "TO1"    -> settings.TO1.status_row
    [] R = "TO6"    -> settings.TO6.status_row
    [] R = "Emmett" -> settings.Emmett.status_row
    [] R = "TO8"    -> settings.TO8.sheets[i].settings.status_row
    [] R = "TO4"    -> settings.TO4.sheets[i].settings.status_row

\* a report sheet as delivered: periods in columns 1..3, the first one already
\* "Actual", the second an "Estimate", the third not yet marked
TemplateSheet ==
  [value |-> [c \in Cells |->
                CASE c[1] = 1 -> (IF c[2] = 1 THEN Str("Actual")
                                  ELSE IF c[2] = 2 THEN Str("Estimate") ELSE None)
                  [] c[1] = 2 -> (IF c[2] = 1 THEN Date(2025, 12)
                                  ELSE IF c[2] = 2 THEN Date(2026, 1) ELSE Date(2026, 2))
                  [] c[1] = 5 -> (IF c[2] = 1 THEN Num(9) ELSE None)
                  [] OTHER    -> (IF c[2] = 1 THEN Num(c[1]) ELSE None)],
   fill  |-> [c \in Cells |->
                CASE c[2] = 1 /\ c[1] = 1 -> "C6E0B4"
                  [] c[2] = 1 /\ c[1] = 3 -> "FFF2CC"
                  [] c[2] = 1 /\ c[1] = 5 -> "D9D9D9"
                  [] OTHER                -> NoFill]]

\* ws.cell(row, column): a cell the sheet does not hold yet is created empty
cell_value(ws, row, column) ==
  IF <<row, column>> \in DOMAIN ws.value THEN ws.value[<<row, column>>] ELSE None
cell_fill(ws, row, column) ==
  IF <<row, column>> \in DOMAIN ws.fill THEN ws.fill[<<row, column>>] ELSE NoFill
set_value(ws, row, column, v) ==
  [ws EXCEPT !.value = [c \in DOMAIN @ \cup {<<row, column>>} |->
                          IF c = <<row, column>> THEN v ELSE @[c]]]
set_fill(ws, row, column, f) ==
  [ws EXCEPT !.fill = [c \in DOMAIN @ \cup {<<row, column>>} |->
                         IF c = <<row, column>> THEN f ELSE @[c]]]

\* ws.max_row, ws.max_column: the last row and column that hold a cell
max_row(ws) ==
  LET rs == {c[1] : c \in DOMAIN ws.value}
  IN IF rs = {} THEN 1 ELSE CHOOSE r \in rs : \A r2 \in rs : r2 <= r
max_column(ws) ==
  LET cs == {c[2] : c \in DOMAIN ws.value}
  IN IF cs = {} THEN 1 ELSE CHOOSE c \in cs : \A c2 \in cs : c2 <= c

----------------------------------------------------------------------------
(* Python strings, as far as the program uses them *)

Whitespace == {" ", "\t"}
Digits == "0123456789"
UpperCase == "ABCDEFGHIJKLMNOPQRSTUVWXYZ"
LowerCase == "abcdefghijklmnopqrstuvwxyz"

\* text[first - 1 : last], the characters at positions first..last that exist
slice(text, first, last) ==
  LET lo == IF first < 1 THEN 1 ELSE first
      hi == IF last > Len(text) THEN Len(text) ELSE last
  IN IF lo > hi THEN "" ELSE SubSeq(text, lo, hi)

\* the position of the character ch in the text, 0 when it is not there
IndexOf(ch, text) ==
  LET at == {i \in 1 .. Len(text) : slice(text, i, i) = ch}
  IN IF at = {} THEN 0 ELSE CHOOSE i \in at : \A j \in at : i <= j

IsDigit(ch) == IndexOf(ch, Digits) # 0
IsLetter(ch) == IndexOf(ch, UpperCase) # 0 \/ IndexOf(ch, LowerCase) # 0

\* needle in text
Contains(text, needle) ==
  \E i \in 1 .. (Len(text) - Len(needle)) + 1 :
    slice(text, i, (i + Len(needle)) - 1) = needle

\* text.lower()
lower(text) ==
  LET low[i \in 0 .. Len(text)] ==
        IF i = 0 THEN ""
        ELSE LET ch == SubSeq(text, i, i)
                 up == IndexOf(ch, UpperCase)
             IN low[i - 1] \o (IF up # 0 THEN SubSeq(LowerCase, up, up) ELSE ch)
  IN low[Len(text)]

\* text.upper()
upper(text) ==
  LET up[i \in 0 .. Len(text)] ==
        IF i = 0 THEN ""
        ELSE LET ch == SubSeq(text, i, i)
                 low == IndexOf(ch, LowerCase)
             IN up[i - 1] \o (IF low # 0 THEN SubSeq(UpperCase, low, low) ELSE ch)
  IN up[Len(text)]

\* int(text), for a text of digits
RECURSIVE int(_)
int(text) ==
  IF Len(text) = 0 THEN 0
  ELSE (10 * int(slice(text, 1, Len(text) - 1)))
         + (IndexOf(slice(text, Len(text), Len(text)), Digits) - 1)

\* str(n), for n >= 0
RECURSIVE str(_)
str(n) ==
  IF n < 10 THEN slice(Digits, n + 1, n + 1)
  ELSE str(n \div 10) \o slice(Digits, (n % 10) + 1, (n % 10) + 1)

----------------------------------------------------------------------------
(* The timesheet aggregation (utils/timesheet_parser.py) *)

NoEmployees == [e \in {} |-> [c \in {} |-> 0]]

\* Hours are Python floats: binary floating-point numbers, whose sum is the
\* exact sum rounded to the nearest number the significand can hold, a tie
\* going to the even significand. Amounts count whole hours and the significand
\* holds 3 bits (53 in CPython), so that 8 + 1 rounds here as 0.1 + 0.2 or
\* 2^53 + 1 round there.

\* the distance between the floats around n >= 0
RECURSIVE ulp(_)
ulp(n) == IF n < 8 THEN 1 ELSE 2 * ulp(n \div 2)

\* the float nearest to the integer n, ties to even
float_round(n) ==
  LET a == IF n < 0 THEN 0 - n ELSE n
      q == ulp(a)
      f == a \div q
      r == a % q
      m == IF 2 * r < q THEN f
           ELSE IF 2 * r > q THEN f + 1
           ELSE IF f % 2 = 0 THEN f ELSE f + 1
  IN IF n < 0 THEN 0 - (m * q) ELSE m * q

\* x + y on floats
float_add(x, y) == float_round(x + y)

NoApplied ==
  [op |-> "", done |-> FALSE,
   sheet |-> [value |-> [c \in {} |-> None], fill |-> [c \in {} |-> NoFill]],
   text |-> "", year |-> 0, month |-> 0,
   result |-> [kind |-> "", col |-> 0, year |-> 0, month |-> 0],
   weeks |-> << >>, timesheets |-> << >>, hours |-> [e \in {} |-> 0],
   completed |-> [folder \in {} |-> {}], templates |-> [exists |-> FALSE, files |-> {}],
   cursor |-> [year |-> 0, month |-> 0, left |-> 0], examined |-> << >>, file |-> ""]

\* no roll-up is running: no workbook is open and nothing is computed
NoWsr ==
  [pc |-> "", calls |-> 0, wsr_path |-> "", year |-> 0, month |-> 0, output_path |-> "",
   before |-> [s \in {} |-> [value |-> [c \in {} |-> None], fill |-> [c \in {} |-> NoFill]]],
   wb |-> [s \in {} |-> [value |-> [c \in {} |-> None], fill |-> [c \in {} |-> NoFill]]],
   files |-> [p \in {} |-> [s \in {} |-> [value |-> [c \in {} |-> None],
                                          fill |-> [c \in {} |-> NoFill]]]],
   employees |-> << >>, monthly_hours |-> [e \in {} |-> 0], next_row |-> 0,
   rollup_data |-> << >>,
   result |-> [status |-> "", total_hours |-> 0, total_cost |-> 0]]

NoAggregation ==
  /\ source = "" /\ rows = << >> /\ employees = NoEmployees /\ applied = NoApplied
  /\ wsr = NoWsr

\* mutant: employees[name][charge_code] = hours
set_hours(emps, name, charge_code, hours) ==
  IF name \in DOMAIN emps
  THEN IF charge_code \in DOMAIN emps[name]
       THEN [emps EXCEPT ![name][charge_code] = hours]
       ELSE [emps EXCEPT ![name] = (charge_code :> hours) @@ @]
  ELSE (name :> (charge_code :> hours)) @@ emps

\* employees[name][charge_code] += hours, on a defaultdict of defaultdict(float)
add_hours(emps, name, charge_code, hours) ==
  IF name \in DOMAIN emps
  THEN IF charge_code \in DOMAIN emps[name]
       THEN [emps EXCEPT ![name][charge_code] = float_add(@, hours)]
       ELSE [emps EXCEPT ![name] = (charge_code :> hours) @@ @]
  ELSE (name :> (charge_code :> hours)) @@ emps

\* the CSV fields, as text
FnameFields == {"Jane", "John"}
LnameFields == {"Doe"}
HoursFields == {"", "0", "-1", "1", "8"}
Jobcode1Fields == {"A", "PTO", ""}
Jobcode2Fields == {"", " ", " B ", "PTO"}

\* the rows of the CSV file: every job code pair with one hour, a counted and
\* an excluded pair with eight hours, one pair with the hours that do not count,
\* and a second employee
CsvRows ==
  {row \in [fname : FnameFields, lname : LnameFields, hours : HoursFields,
            jobcode_1 : Jobcode1Fields, jobcode_2 : Jobcode2Fields] :
     /\ row.hours \in {"", "0", "-1"} => (row.jobcode_1 = "A" /\ row.jobcode_2 = " B ")
     /\ row.hours = "8" => (row.jobcode_1 \in {"A", "PTO"} /\ row.jobcode_2 = " B ")
     /\ row.fname = "John" => (/\ row.hours = "1" /\ row.jobcode_1 = "A"
                               /\ row.jobcode_2 \in {"", " B "})}

\* f"{fname} {lname}", on the texts of the name fields
full_name(fname, lname) ==
  CASE fname = "Jane" /\ lname = "Doe" -> "Jane Doe"
    [] fname = "John" /\ lname = "Doe" -> "John Doe"

\* float(text), on the texts of HoursFields
to_float(text) ==
  CASE text = "0" -> 0 [] text = "-1" -> 0 - 1 [] text = "1" -> 1 [] text = "8" -> 8

\* text.strip()
RECURSIVE lstrip(_)
lstrip(text) ==
  IF Len(text) > 0 /\ slice(text, 1, 1) \in Whitespace
  THEN lstrip(slice(text, 2, Len(text))) ELSE text

RECURSIVE rstrip(_)
rstrip(text) ==
  IF Len(text) > 0 /\ slice(text, Len(text), Len(text)) \in Whitespace
  THEN rstrip(slice(text, 1, Len(text) - 1)) ELSE text

strip(text) == rstrip(lstrip(text))

\* mutant: the guard on the hours is missing
csv_row_no_hours_guard(emps, row) ==
  LET name == full_name(row.fname, row.lname)
      hours == IF row.hours # "" THEN to_float(row.hours) ELSE 0
      jobcode_2 == strip(row.jobcode_2)
      jobcode_1 == strip(row.jobcode_1)
      charge_code == IF jobcode_2 # "" THEN jobcode_2 ELSE jobcode_1
  IN IF jobcode_1 \in {"PTO", "Holiday"} THEN emps
     ELSE IF charge_code # ""
          THEN add_hours(emps, name, charge_code, hours)
          ELSE emps

\* mutant: the exclusion looks at the resolved charge code
csv_row_skip_resolved(emps, row) ==
  LET name == full_name(row.fname, row.lname)
      hours == IF row.hours # "" THEN to_float(row.hours) ELSE 0
      jobcode_2 == strip(row.jobcode_2)
      jobcode_1 == strip(row.jobcode_1)
      charge_code == IF jobcode_2 # "" THEN jobcode_2 ELSE jobcode_1
  IN IF charge_code \in {"PTO", "Holiday"} THEN emps
     ELSE IF charge_code # "" /\ hours > 0
          THEN add_hours(emps, name, charge_code, hours)
          ELSE emps

\* mutant: jobcode_1 is used when it is not empty, jobcode_2 otherwise
csv_row_primary_first(emps, row) ==
  LET name == full_name(row.fname, row.lname)
      hours == IF row.hours # "" THEN to_float(row.hours) ELSE 0
      jobcode_2 == strip(row.jobcode_2)
      jobcode_1 == strip(row.jobcode_1)
      charge_code == IF jobcode_1 # "" THEN jobcode_1 ELSE jobcode_2
  IN IF jobcode_1 \in {"PTO", "Holiday"} THEN emps
     ELSE IF charge_code # "" /\ hours > 0
          THEN add_hours(emps, name, charge_code, hours)
          ELSE emps

\* the body of "for row in reader"
csv_row(emps, row) ==
  LET name == full_name(row.fname, row.lname)
      hours == IF row.hours # "" THEN to_float(row.hours) ELSE 0
      jobcode_2 == strip(row.jobcode_2)
      jobcode_1 == strip(row.jobcode_1)
      charge_code == IF jobcode_2 # "" THEN jobcode_2 ELSE jobcode_1
  IN IF jobcode_1 \in {"PTO", "Holiday"} THEN emps
     ELSE IF charge_code # "" /\ hours > 0
          THEN add_hours(emps, name, charge_code, hours)
          ELSE emps

RECURSIVE parse_timesheet_csv(_)
parse_timesheet_csv(csv_rows) ==
  IF csv_rows = << >> THEN NoEmployees
  ELSE csv_row(parse_timesheet_csv(SubSeq(csv_rows, 1, Len(csv_rows) - 1)),
               csv_rows[Len(csv_rows)])

\* config/tsheets_config.json: users, skip_jobcodes; and the job codes the API lists
user_map == [u \in {"101", "102"} |-> IF u = "101" THEN "Jane Doe" ELSE "John Doe"]
skip_jobcodes == {"PTO", "Holiday"}
jobcode_map == [j \in {1, 2} |-> IF j = 1 THEN "A" ELSE "PTO"]

UserIds == {"101", "102", "999"}
JobcodeIds == {1, 2, 7}
Durations == {0, 3600, 28800, 0 - 3600}

\* the timesheet records of the API; a record may lack 'duration'
Timesheets ==
  {ts \in [user_id : UserIds, jobcode_id : JobcodeIds, has_duration : {TRUE},
           duration : Durations] :
     /\ ts.duration \in {0, 28800, 0 - 3600} => (ts.user_id = "101" /\ ts.jobcode_id = 1)
     /\ ts.user_id = "102" => (ts.duration = 3600 /\ ts.jobcode_id \in {1, 2})
     /\ ts.user_id = "999" => (ts.duration = 3600 /\ ts.jobcode_id = 1)}
  \cup [user_id : {"101"}, jobcode_id : {1}, has_duration : {FALSE}, duration : {0}]

\* the body of "for ts_id, ts in timesheets"; durations are whole hours here,
\* so duration_seconds / 3600.0 is exact
timesheet(emps, ts) ==
  LET duration_seconds == IF ts.has_duration THEN ts.duration ELSE 0
      jobcode_name == IF ts.jobcode_id \in DOMAIN jobcode_map
                      THEN jobcode_map[ts.jobcode_id] ELSE ""
      hours == duration_seconds \div 3600
  IN IF ts.user_id \notin DOMAIN user_map THEN emps
     ELSE IF jobcode_name \in skip_jobcodes THEN emps
     ELSE IF jobcode_name # "" /\ hours > 0
          THEN add_hours(emps, user_map[ts.user_id], jobcode_name, hours)
          ELSE emps

RECURSIVE get_tsheets_timesheets(_)
get_tsheets_timesheets(timesheets) ==
  IF timesheets = << >> THEN NoEmployees
  ELSE timesheet(get_tsheets_timesheets(SubSeq(timesheets, 1, Len(timesheets) - 1)),
                 timesheets[Len(timesheets)])

\* mutant: the records of the excluded job codes are passed over, as in the
\* monthly aggregation
week_timesheet_skip_excluded(hours, ts) ==
  LET jobcode_name == IF ts.jobcode_id \in DOMAIN jobcode_map
                      THEN jobcode_map[ts.jobcode_id] ELSE ""
      duration == (IF ts.has_duration THEN ts.duration ELSE 0) \div 3600
  IN IF ts.user_id \notin DOMAIN user_map \/ jobcode_name \in skip_jobcodes THEN hours
     ELSE LET emp_name == user_map[ts.user_id]
          IN [e \in DOMAIN hours \cup {emp_name} |->
                IF e = emp_name
                THEN float_add(IF e \in DOMAIN hours THEN hours[e] ELSE 0, duration)
                ELSE hours[e]]

\* the body of "for ts_id, ts in timesheets.items()" of the weekly source
\* (agents/wsr_updater.py): "hours[emp_name] = hours.get(emp_name, 0) + duration"
week_timesheet(hours, ts) ==
  LET duration == (IF ts.has_duration THEN ts.duration ELSE 0) \div 3600
  IN IF ts.user_id \notin DOMAIN user_map THEN hours
     ELSE LET emp_name == user_map[ts.user_id]
          IN [e \in DOMAIN hours \cup {emp_name} |->
                IF e = emp_name
                THEN float_add(IF e \in DOMAIN hours THEN hours[e] ELSE 0, duration)
                ELSE hours[e]]

\* get_tsheets_hours_for_week(start_date, end_date), on the records the API
\* returns for the week
RECURSIVE get_tsheets_hours_for_week(_)
get_tsheets_hours_for_week(timesheets) ==
  IF timesheets = << >> THEN [e \in {} |-> 0]
  ELSE week_timesheet(
         get_tsheets_hours_for_week(SubSeq(timesheets, 1, Len(timesheets) - 1)),
         timesheets[Len(timesheets)])

InitAgg ==
  /\ source \in {"csv", "api"}
  /\ rows = << >>
  /\ employees = NoEmployees
  /\ applied = NoApplied
  /\ wsr = NoWsr

\* the CSV reader yields the next row
ReadCsvRow(row) ==
  /\ source = "csv"
  /\ Len(rows) < MaxRows
  /\ rows' = Append(rows, row)
  /\ employees' = csv_row(employees, row)
  /\ UNCHANGED <<source, updVars, orchVars, fnVars, wsrVars>>

\* the next timesheet record of the API's answer
ReadTimesheet(ts) ==
  /\ source = "api"
  /\ Len(rows) < MaxRows
  /\ rows' = Append(rows, ts)
  /\ employees' = timesheet(employees, ts)
  /\ UNCHANGED <<source, updVars, orchVars, fnVars, wsrVars>>

----------------------------------------------------------------------------
(* Inputs: the employee mappings and the aggregated timesheet hours *)

NoKey == "<no key>"

OtherReport(R) == IF R = "TO1" THEN "TO8" ELSE "TO1"

Entry(emp, msrs, code, msr, sheet, row) ==
  [employee |-> emp, msrs |-> msrs, charge_code |-> code, msr |-> msr,
   sheet |-> sheet, row |-> row]

\* employee mapping files with charge codes of report R: every file maps Jane
\* Doe's "R100" to row 3 of R's first sheet and differs in its second entry
MappingsFor(R) ==
  LET S1 == SheetsOf(R)[1]
      S2 == SheetsOf(R)[Len(SheetsOf(R))]
      O  == OtherReport(R)
  IN { \* a second charge code of the same employee, on its own row
       << Entry("Jane Doe", {R}, "R100", R, S1, 3),
          Entry("Jane Doe", {R}, "R200", R, S1, 4) >>,
       \* two charge codes mapped to the same row
       << Entry("Jane Doe", {R}, "R100", R, S1, 3),
          Entry("Jane Doe", {R}, "R200", R, S1, 3) >>,
       \* a second employee, on the report's last sheet
       << Entry("Jane Doe", {R}, "R100", R, S1, 3),
          Entry("John Doe", {R, O}, "R200", R, S2, 4) >>,
       \* a charge code of another report, which names no sheet
       << Entry("Jane Doe", {R, O}, "R100", R, S1, 3),
          Entry("Jane Doe", {R, O}, "R200", O, NoKey, 4) >>,
       \* an employee who is not assigned to R
       << Entry("Jane Doe", {R}, "R100", R, S1, 3),
          Entry("John Doe", {O}, "R200", O, S1, 4) >>,
       \* a charge code of R whose mapping names no sheet
       << Entry("Jane Doe", {R}, "R100", R, S1, 3),
          Entry("Jane Doe", {R}, "R200", R, NoKey, 4) >>,
       \* a charge code mapped to a row below the last row of the sheet
       << Entry("Jane Doe", {R}, "R100", R, S1, 3),
          Entry("Jane Doe", {R}, "R200", R, S1, 6) >> }

NoHours == [c \in {} |-> 0]

\* aggregated hours, employee -> charge code -> hours
TimesheetSet ==
  { [e \in {"Jane Doe"} |-> [c \in {"R100", "R200"} |-> IF c = "R100" THEN 8 ELSE 2]],
    [e \in {"Jane Doe", "John Doe"} |->
       IF e = "Jane Doe" THEN [c \in {"R100"} |-> 1] ELSE [c \in {"R200"} |-> 3]] }

----------------------------------------------------------------------------
(* The updaters' work on the in-memory workbook.  st is what a call holds:  *)
(* [wb, updates, total_hours, error]; error # "" once an exception is raised *)

NoWorkbook == [s \in {} |-> 0]

NoError == ""

Raise(st, e) == [st EXCEPT !.error = e]

Update(sheet_name, m, hours) ==
  [sheet |-> sheet_name, employee |-> m.employee, charge_code |-> m.charge_code,
   row |-> m.row, hours |-> hours]

\* timesheet_data.get(emp_name, {}).get(charge_code, 0.0)
emp_hours(timesheet_data, emp_name, charge_code) ==
  IF emp_name \in DOMAIN timesheet_data
  THEN IF charge_code \in DOMAIN timesheet_data[emp_name]
       THEN timesheet_data[emp_name][charge_code]
       ELSE 0
  ELSE 0

RECURSIVE SumHours(_)
SumHours(updates) ==
  IF updates = << >> THEN 0
  ELSE float_add(SumHours(SubSeq(updates, 1, Len(updates) - 1)),
                 updates[Len(updates)].hours)

\* ---- TO1 ----

\* mutant: the marker goes to the previous period's column
to1_status_prev_column(ws, target_column) ==
  LET status_row == settings.TO1.status_row
      status_fill == cell_fill(ws, status_row, target_column - 1)
  IN set_fill(set_value(ws, status_row, target_column - 1, Str("Actual")),
              status_row, target_column, status_fill)

to1_status(ws, target_column) ==
  LET status_row == settings.TO1.status_row
      status_fill == cell_fill(ws, status_row, target_column - 1)
  IN set_fill(set_value(ws, status_row, target_column, Str("Actual")),
              status_row, target_column, status_fill)

\* mutant: total_hours = hours instead of total_hours += hours
to1_charge_code_no_sum(st, m, timesheet_data, target_column) ==
  LET name == "Extension Period MSR" IN
  IF "TO1" \notin m.msrs THEN st
  ELSE IF m.msr # "TO1" THEN st
  ELSE LET hours == emp_hours(timesheet_data, m.employee, m.charge_code)
           row_fill == cell_fill(st.wb[name], m.row, target_column - 1)
       IN [st EXCEPT
             !.wb[name] = set_fill(set_value(@, m.row, target_column, Num(hours)),
                                   m.row, target_column, row_fill),
             !.total_hours = hours,
             !.updates = Append(@, Update(name, m, hours))]

\* mutant: the hours are added to the number the cell already holds
to1_charge_code_add(st, m, timesheet_data, target_column) ==
  LET name == "Extension Period MSR" IN
  IF "TO1" \notin m.msrs THEN st
  ELSE IF m.msr # "TO1" THEN st
  ELSE LET hours == emp_hours(timesheet_data, m.employee, m.charge_code)
           row_fill == cell_fill(st.wb[name], m.row, target_column - 1)
           old == cell_value(st.wb[name], m.row, target_column)
           new == IF old.kind = "num" THEN old.n + hours ELSE hours
       IN [st EXCEPT
             !.wb[name] = set_fill(set_value(@, m.row, target_column, Num(new)),
                                   m.row, target_column, row_fill),
             !.total_hours = float_add(@, hours),
             !.updates = Append(@, Update(name, m, hours))]

to1_charge_code(st, m, timesheet_data, target_column) ==
  LET name == "Extension Period MSR" IN
  IF "TO1" \notin m.msrs THEN st
  ELSE IF m.msr # "TO1" THEN st
  ELSE LET hours == emp_hours(timesheet_data, m.employee, m.charge_code)
           row_fill == cell_fill(st.wb[name], m.row, target_column - 1)
       IN [st EXCEPT
             !.wb[name] = set_fill(set_value(@, m.row, target_column, Num(hours)),
                                   m.row, target_column, row_fill),
             !.total_hours = float_add(@, hours),
             !.updates = Append(@, Update(name, m, hours))]

\* mutant: the total is added to the number the total cell already holds
to1_total_accumulated(st, target_column) ==
  LET name == "Extension Period MSR"
      total_row == settings.TO1.total_row
      total_fill == cell_fill(st.wb[name], total_row, target_column - 1)
      old == cell_value(st.wb[name], total_row, target_column)
      new == IF old.kind = "num" THEN float_add(old.n, st.total_hours) ELSE st.total_hours
  IN [st EXCEPT
        !.wb[name] = set_fill(set_value(@, total_row, target_column, Num(new)),
                              total_row, target_column, total_fill)]

to1_total(st, target_column) ==
  LET name == "Extension Period MSR"
      total_row == settings.TO1.total_row
      total_fill == cell_fill(st.wb[name], total_row, target_column - 1)
  IN [st EXCEPT
        !.wb[name] = set_fill(set_value(@, total_row, target_column, Num(st.total_hours)),
                              total_row, target_column, total_fill)]

RECURSIVE to1_employees(_, _, _, _)
to1_employees(st, timesheet_data, target_column, i) ==
  IF i > Len(mappings) THEN st
  ELSE to1_employees(to1_charge_code(st, mappings[i], timesheet_data, target_column),
                     timesheet_data, target_column, i + 1)

to1_sheet(st, timesheet_data, target_column) ==
  LET name == "Extension Period MSR" IN
  IF name \notin DOMAIN st.wb THEN Raise(st, "KeyError: Extension Period MSR")
  ELSE IF target_column - 1 < 1 THEN Raise(st, "ValueError: column")
  ELSE to1_total(
         to1_employees([st EXCEPT !.wb[name] = to1_status(@, target_column)],
                       timesheet_data, target_column, 1),
         target_column)

\* ---- TO6 ----

to6_status(ws, target_column) ==
  LET status_row == settings.TO6.status_row
      status_fill == cell_fill(ws, status_row, target_column - 1)
  IN set_fill(set_value(ws, status_row, target_column, Str("Actual")),
              status_row, target_column, status_fill)

to6_charge_code(st, m, timesheet_data, target_column) ==
  LET name == "Option 4 MSR" IN
  IF "TO6" \notin m.msrs THEN st
  ELSE IF m.msr # "TO6" THEN st
  ELSE LET hours == emp_hours(timesheet_data, m.employee, m.charge_code)
           row_fill == cell_fill(st.wb[name], m.row, target_column - 1)
       IN [st EXCEPT
             !.wb[name] = set_fill(set_value(@, m.row, target_column, Num(hours)),
                                   m.row, target_column, row_fill),
             !.total_hours = float_add(@, hours),
             !.updates = Append(@, Update(name, m, hours))]

RECURSIVE to6_employees(_, _, _, _)
to6_employees(st, timesheet_data, target_column, i) ==
  IF i > Len(mappings) THEN st
  ELSE to6_employees(to6_charge_code(st, mappings[i], timesheet_data, target_column),
                     timesheet_data, target_column, i + 1)

to6_sheet(st, timesheet_data, target_column) ==
  LET name == "Option 4 MSR" IN
  IF name \notin DOMAIN st.wb THEN Raise(st, "KeyError: Option 4 MSR")
  ELSE IF target_column - 1 < 1 THEN Raise(st, "ValueError: column")
  ELSE to6_employees([st EXCEPT !.wb[name] = to6_status(@, target_column)],
                     timesheet_data, target_column, 1)

\* ---- Emmett ----

emmett_status(ws, target_column) ==
  LET status_row == settings.Emmett.status_row
      status_fill == cell_fill(ws, status_row, target_column - 1)
  IN set_fill(set_value(ws, status_row, target_column, Str("Actual")),
              status_row, target_column, status_fill)

emmett_charge_code(st, m, timesheet_data, target_column) ==
  LET name == settings.Emmett.sheet_name IN
  IF "Emmett" \notin m.msrs THEN st
  ELSE IF m.msr # "Emmett" THEN st
  ELSE LET hours == emp_hours(timesheet_data, m.employee, m.charge_code)
       IN [st EXCEPT
             !.wb[name] = set_fill(set_value(@, m.row, target_column, Num(hours)),
                                   m.row, target_column, highlight_fill),
             !.total_hours = float_add(@, hours),
             !.updates = Append(@, Update(name, m, hours))]

RECURSIVE emmett_employees(_, _, _, _)
emmett_employees(st, timesheet_data, target_column, i) ==
  IF i > Len(mappings) THEN st
  ELSE emmett_employees(emmett_charge_code(st, mappings[i], timesheet_data, target_column),
                        timesheet_data, target_column, i + 1)

emmett_sheet(st, timesheet_data, target_column) ==
  LET name == settings.Emmett.sheet_name IN
  IF name \notin DOMAIN st.wb THEN Raise(st, "KeyError: Magni HA")
  ELSE IF target_column - 1 < 1 THEN Raise(st, "ValueError: column")
  ELSE emmett_employees([st EXCEPT !.wb[name] = emmett_status(@, target_column)],
                        timesheet_data, target_column, 1)

\* ---- the two-sheet reports, TO8 and TO4 ----

\* for row in range(fill_range['start'], fill_range['end'] + 1): cell.fill = status_fill
fill_column(ws, fill_range, target_column, status_fill) ==
  [ws EXCEPT !.fill = [c \in DOMAIN @ |->
                         IF c[2] = target_column /\ c[1] \in fill_range.start .. fill_range.end
                         THEN status_fill ELSE @[c]]]

to8_status(ws, sheet_settings_, target_column) ==
  LET status_row == sheet_settings_.status_row
      prev_fill == cell_fill(ws, status_row, target_column - 1)
      status_fill == IF prev_fill # NoFill THEN prev_fill ELSE ACTUAL_FILL
  IN fill_column(set_value(ws, status_row, target_column, Str("Actual")),
                 sheet_settings_.fill_range, target_column, status_fill)

to8_charge_code(st, m, sheet_name, timesheet_data, target_column) ==
  IF st.error # NoError THEN st
  ELSE IF "TO8" \notin m.msrs THEN st
  ELSE IF m.msr # "TO8" THEN st
  ELSE IF m.sheet = NoKey THEN Raise(st, "KeyError: sheet")
  ELSE IF m.sheet # sheet_name THEN st
  ELSE LET hours == emp_hours(timesheet_data, m.employee, m.charge_code)
       IN [st EXCEPT
             !.wb[sheet_name] = set_value(@, m.row, target_column, Num(hours)),
             !.updates = Append(@, Update(sheet_name, m, hours))]

RECURSIVE to8_employees(_, _, _, _, _)
to8_employees(st, sheet_name, timesheet_data, target_column, i) ==
  IF i > Len(mappings) THEN st
  ELSE to8_employees(
         to8_charge_code(st, mappings[i], sheet_name, timesheet_data, target_column),
         sheet_name, timesheet_data, target_column, i + 1)

\* one turn of "for sheet_name, sheet_settings in to8_settings['sheets'].items()"
to8_sheet(st, i, timesheet_data, target_column) ==
  LET sheet_name == settings.TO8.sheets[i].name
      sheet_settings_ == settings.TO8.sheets[i].settings
  IN IF sheet_name \notin DOMAIN st.wb THEN Raise(st, "KeyError: sheet name")
     ELSE IF target_column - 1 < 1 THEN Raise(st, "ValueError: column")
     ELSE to8_employees(
            [st EXCEPT !.wb[sheet_name] = to8_status(@, sheet_settings_, target_column)],
            sheet_name, timesheet_data, target_column, 1)

to4_status(ws, sheet_settings_, target_column) ==
  LET status_row == sheet_settings_.status_row
      status_fill == cell_fill(ws, status_row, target_column - 1)
  IN fill_column(set_value(ws, status_row, target_column, Str("Actual")),
                 sheet_settings_.fill_range, target_column, status_fill)

to4_charge_code(st, m, sheet_name, timesheet_data, target_column) ==
  IF st.error # NoError THEN st
  ELSE IF "TO4" \notin m.msrs THEN st
  ELSE IF m.sheet = NoKey THEN Raise(st, "KeyError: sheet")
  ELSE IF m.sheet # sheet_name THEN st
  ELSE LET hours == emp_hours(timesheet_data, m.employee, m.charge_code)
       IN [st EXCEPT
             !.wb[sheet_name] = set_value(@, m.row, target_column, Num(hours)),
             !.updates = Append(@, Update(sheet_name, m, hours))]

RECURSIVE to4_employees(_, _, _, _, _)
to4_employees(st, sheet_name, timesheet_data, target_column, i) ==
  IF i > Len(mappings) THEN st
  ELSE to4_employees(
         to4_charge_code(st, mappings[i], sheet_name, timesheet_data, target_column),
         sheet_name, timesheet_data, target_column, i + 1)

to4_sheet(st, i, timesheet_data, target_column) ==
  LET sheet_name == settings.TO4.sheets[i].name
      sheet_settings_ == settings.TO4.sheets[i].settings
  IN IF sheet_name \notin DOMAIN st.wb THEN Raise(st, "KeyError: sheet name")
     ELSE IF target_column - 1 < 1 THEN Raise(st, "ValueError: column")
     ELSE to4_employees(
            [st EXCEPT !.wb[sheet_name] = to4_status(@, sheet_settings_, target_column)],
            sheet_name, timesheet_data, target_column, 1)

----------------------------------------------------------------------------
(* The updaters as programs: load the workbook, work on each sheet, save *)

Load == [op |-> "load", i |-> 0]
Sheet(i) == [op |-> "sheet", i |-> i]
Save == [op |-> "save", i |-> 0]

update_to1_msr == << Load, Sheet(1), Save >>
update_to6_msr == << Load, Sheet(1), Save >>
update_emmett_wsr == << Load, Sheet(1), Save >>
\* mutant: wb.save inside the loop over the sheets
update_to8_msr_save_in_loop == << Load, Sheet(1), Save, Sheet(2), Save >>
update_to8_msr == << Load, Sheet(1), Sheet(2), Save >>
update_to4_msr == << Load, Sheet(1), Sheet(2), Save >>

Program(R) ==
  CASE R = "TO1"    -> update_to1_msr
    [] R = "TO6"    -> update_to6_msr
    [] R = "Emmett" -> update_emmett_wsr
    [] R = "TO8"    -> update_to8_msr
    [] R = "TO4"    -> update_to4_msr

sheet_step(R, i, st, timesheet_data, target_column) ==
  CASE R = "TO1"    -> to1_sheet(st, timesheet_data, target_column)
    [] R = "TO6"    -> to6_sheet(st, timesheet_data, target_column)
    [] R = "Emmett" -> emmett_sheet(st, timesheet_data, target_column)
    [] R = "TO8"    -> to8_sheet(st, i, timesheet_data, target_column)
    [] R = "TO4"    -> to4_sheet(st, i, timesheet_data, target_column)

\* 'total_hours' of the returned summary
result_total_hours(R, st) ==
  IF R \in {"TO8", "TO4"}
  THEN float_add(SumHours(SelectSeq(st.updates, LAMBDA u : u.sheet = SheetsOf(R)[1])),
                 SumHours(SelectSeq(st.updates, LAMBDA u : u.sheet = SheetsOf(R)[2])))
  ELSE st.total_hours

\* files
Absent == [kind |-> "absent", wb |-> NoWorkbook]
Corrupt == [kind |-> "corrupt", wb |-> NoWorkbook]
Xlsx(workbook) == [kind |-> "xlsx", wb |-> workbook]

\* load_workbook(msr_path)
load_workbook(st, file) ==
  IF file.kind = "xlsx" THEN [st EXCEPT !.wb = file.wb]
  ELSE Raise(st, "load_workbook failed")

\* mutant: the workbook is saved over the file it was loaded from
wb_save_in_place(d, c, workbook) == [d EXCEPT ![c.msr_path] = Xlsx(workbook)]

\* wb.save(output_path)
wb_save(d, c, workbook) == [d EXCEPT ![c.output_path] = Xlsx(workbook)]

Paths == {"msr.xlsx", "out.xlsx"}

WorkbooksFor(R) ==
  { [s \in {SheetsOf(R)[i] : i \in 1 .. Len(SheetsOf(R))} |-> TemplateSheet],
    [s \in {SheetsOf(R)[i] : i \in 1 .. Len(SheetsOf(R)) - 1} |-> TemplateSheet] }

NoMem == [wb |-> NoWorkbook, updates |-> << >>, total_hours |-> 0, error |-> NoError]

NoCall == [msr_path |-> "", timesheet_data |-> [e \in {} |-> NoHours],
           target_column |-> 0, output_path |-> "", before |-> [p \in {} |-> Absent]]

NoOrch == [pc |-> "", month_str |-> "",
           timesheet_data |-> [e \in {} |-> NoHours], target_year |-> 0,
           target_month |-> 0, before |-> [p \in {} |-> Absent],
           save |-> [r \in {} |-> ""], attempted |-> << >>,
           results |-> [r \in {} |-> 0], successful |-> 0]

Init ==
  /\ report \in Reports
  /\ mappings \in MappingsFor(report)
  /\ \E workbook \in WorkbooksFor(report) :
       disk = [p \in Paths |-> IF p = "msr.xlsx" THEN Xlsx(workbook) ELSE Absent]
  /\ pc = 0
  /\ call = NoCall
  /\ mem = NoMem
  /\ history = << >>
  /\ orch = NoOrch
  /\ NoAggregation

\* the call ends: by returning (status "ok"), by an exception ("error") or
\* because the process is terminated ("terminated")
Finished(status, stage, st, d) ==
  [msr_path |-> call.msr_path, timesheet_data |-> call.timesheet_data,
   target_column |-> call.target_column, output_path |-> call.output_path,
   before |-> call.before, after |-> d,
   status |-> status, stage |-> stage, error |-> st.error,
   wb |-> st.wb, updates |-> st.updates,
   total_hours |-> result_total_hours(report, st)]

End(status, stage, st, d) ==
  /\ history' = Append(history, Finished(status, stage, st, d))
  /\ pc' = 0
  /\ mem' = NoMem

Continue(st) ==
  IF pc = Len(Program(report))
  THEN End("ok", "return", st, disk')
  ELSE /\ pc' = pc + 1
       /\ mem' = st
       /\ history' = history

CallUpdater(msr_path, timesheet_data, target_column, output_path) ==
  /\ pc = 0
  /\ Len(history) < MaxCalls
  /\ history # << >> => history[Len(history)].status = "ok"
  /\ call' = [msr_path |-> msr_path, timesheet_data |-> timesheet_data,
              target_column |-> target_column, output_path |-> output_path,
              before |-> disk]
  /\ pc' = 1
  /\ mem' = NoMem
  /\ UNCHANGED <<report, mappings, disk, history, orch, aggVars, fnVars, wsrVars>>

LoadStep ==
  /\ pc > 0
  /\ Program(report)[pc].op = "load"
  /\ LET st == load_workbook(mem, disk[call.msr_path])
     IN /\ disk' = disk
        /\ IF st.error # NoError THEN End("error", "load", st, disk) ELSE Continue(st)
  /\ UNCHANGED <<report, mappings, call, orch, aggVars, fnVars, wsrVars>>

SheetStep ==
  /\ pc > 0
  /\ Program(report)[pc].op = "sheet"
  /\ LET st == sheet_step(report, Program(report)[pc].i, mem,
                          call.timesheet_data, call.target_column)
     IN /\ disk' = disk
        /\ IF st.error # NoError THEN End("error", "sheet", st, disk) ELSE Continue(st)
  /\ UNCHANGED <<report, mappings, call, orch, aggVars, fnVars, wsrVars>>

SaveStep ==
  /\ pc > 0
  /\ Program(report)[pc].op = "save"
  /\ disk' = wb_save(disk, call, mem.wb)
  /\ Continue(mem)
  /\ UNCHANGED <<report, mappings, call, orch, aggVars, fnVars, wsrVars>>

\* the save fails (IOError): the output file is left as it was, or half written
SaveFails ==
  /\ pc > 0
  /\ Program(report)[pc].op = "save"
  /\ \E file \in {disk[call.output_path], Corrupt} :
       /\ disk' = [disk EXCEPT ![call.output_path] = file]
       /\ End("error", "save", Raise(mem, "IOError: save"), disk')
  /\ UNCHANGED <<report, mappings, call, orch, aggVars, fnVars, wsrVars>>

\* the process is terminated while the call is running
Terminate ==
  /\ pc > 0
  /\ disk' = disk
  /\ End("terminated", Program(report)[pc].op, mem, disk)
  /\ UNCHANGED <<report, mappings, call, orch, aggVars, fnVars, wsrVars>>

Next ==
  \/ \E msr_path \in Paths, timesheet_data \in TimesheetSet,
        target_column \in Cols, output_path \in Paths :
       CallUpdater(msr_path, timesheet_data, target_column, output_path)
  \/ LoadStep
  \/ SheetStep
  \/ SaveStep
  \/ SaveFails
  \/ Terminate

Spec == Init /\ [][Next]_vars

\* the whole updater on a workbook file, in memory (nothing is saved)
RECURSIVE run_program(_, _, _, _, _, _)
run_program(R, st, file, timesheet_data, target_column, i) ==
  IF i > Len(Program(R)) \/ st.error # NoError THEN st
  ELSE LET step == Program(R)[i]
           st1 == CASE step.op = "load"  -> load_workbook(st, file)
                    [] step.op = "sheet" -> sheet_step(R, step.i, st, timesheet_data,
                                                       target_column)
                    [] step.op = "save"  -> st
       IN run_program(R, st1, file, timesheet_data, target_column, i + 1)

----------------------------------------------------------------------------
(* The column locator (utils/date_finder.py) *)

year_of(v) == v.n \div 12
month_of(v) == (v.n % 12) + 1

RECURSIVE find_month_column_from(_, _, _, _, _)
find_month_column_from(ws, date_header_row, target_year, target_month, col) ==
  IF col > max_column(ws) THEN 0
  ELSE LET cell == cell_value(ws, date_header_row, col)
       IN IF /\ cell.kind = "date"
             /\ year_of(cell) = target_year
             /\ month_of(cell) = target_month
          THEN col
          ELSE find_month_column_from(ws, date_header_row, target_year, target_month,
                                      col + 1)

\* mutant: the year of the header cell is not compared
find_month_column_any_year(ws, date_header_row, target_year, target_month) ==
  LET found == {col \in 1 .. max_column(ws) :
                  /\ cell_value(ws, date_header_row, col).kind = "date"
                  /\ month_of(cell_value(ws, date_header_row, col)) = target_month}
  IN IF found = {} THEN 0 ELSE CHOOSE col \in found : \A c2 \in found : col <= c2

\* the column found, 0 for None
find_month_column(ws, date_header_row, target_year, target_month) ==
  find_month_column_from(ws, date_header_row, target_year, target_month, 1)

----------------------------------------------------------------------------
(* The orchestrator, update_all_msrs, after the month is parsed and the   *)
(* settings are loaded                                                    *)

OrchReports == << "TO1", "TO8", "TO6" >>

\* the reports given to the run (to1_msr, to8_msr, to6_msr)
MsrPath(R) ==
  CASE R = "TO1" -> "to1_msr" [] R = "TO8" -> "to8_msr" [] R = "TO6" -> "to6_msr"

\* output_dir / get_msr_output_filename(R, year, month)
get_msr_output_filename(R) ==
  CASE R = "TO1" -> "Athena TO1 Vertekal MSR"
    [] R = "TO8" -> "Athena TO8-Vertekal MSR"
    [] R = "TO6" -> "Athena TO6 Vertekal MSR Opt3"

OrchPaths == {MsrPath(OrchReports[i]) : i \in 1 .. 3}
               \cup {get_msr_output_filename(OrchReports[i]) : i \in 1 .. 3}

\* the sheet and the header row the orchestrator looks the column up in
LocatorSheet(R) ==
  CASE R = "TO1" -> settings.TO1.sheet_name
    [] R = "TO8" -> "CLIN 0001AA"
    [] R = "TO6" -> settings.TO6.sheet_name

LocatorRow(R) ==
  CASE R = "TO1" -> settings.TO1.date_header_row
    [] R = "TO8" -> settings.TO8.sheets[1].settings.date_header_row
    [] R = "TO6" -> settings.TO6.date_header_row

ErrorEntry(msg) ==
  [kind |-> "error", error |-> msg, total_hours |-> 0, updates |-> << >>,
   output_path |-> ""]

ResultEntry(R, st, output_path) ==
  [kind |-> "result", error |-> NoError, total_hours |-> result_total_hours(R, st),
   updates |-> st.updates, output_path |-> output_path]

\* mutant: no except clause, the exception leaves update_all_msrs
try_report_no_except(R, d, o, save) ==
  LET file == d[MsrPath(R)]
      out == get_msr_output_filename(R)
      stop == [entry |-> ErrorEntry("raised"), disk |-> d, raised |-> TRUE,
               save |-> "not reached"]
  IN IF file.kind # "xlsx" THEN stop
     ELSE IF LocatorSheet(R) \notin DOMAIN file.wb THEN stop
     ELSE LET col == find_month_column(file.wb[LocatorSheet(R)], LocatorRow(R),
                                       o.target_year, o.target_month)
          IN IF col = 0
             THEN [entry |-> ErrorEntry("Column not found"), disk |-> d,
                   raised |-> FALSE, save |-> "not reached"]
             ELSE LET st == run_program(R, NoMem, file, o.timesheet_data, col, 1)
                      c == [msr_path |-> MsrPath(R), output_path |-> out]
                  IN IF st.error # NoError THEN stop
                     ELSE IF save = "fails" THEN [stop EXCEPT !.save = save]
                     ELSE IF save = "fails half written"
                     THEN [stop EXCEPT !.disk = [d EXCEPT ![out] = Corrupt],
                                       !.save = save]
                     ELSE [entry |-> ResultEntry(R, st, out),
                           disk |-> wb_save(d, c, st.wb), raised |-> FALSE,
                           save |-> save]

\* one of the three try blocks: look the column up, call the updater, record
\* its result or the error.  save is what happens when the updater saves.
try_report(R, d, o, save) ==
  LET file == d[MsrPath(R)]
      out == get_msr_output_filename(R)
      caught(msg) == [entry |-> ErrorEntry(msg), disk |-> d, raised |-> FALSE,
                      save |-> "not reached"]
  IN IF file.kind # "xlsx" THEN caught("load_workbook failed")
     ELSE IF LocatorSheet(R) \notin DOMAIN file.wb THEN caught("KeyError: sheet name")
     ELSE LET col == find_month_column(file.wb[LocatorSheet(R)], LocatorRow(R),
                                       o.target_year, o.target_month)
          IN IF col = 0 THEN caught("Column not found")
             ELSE LET st == run_program(R, NoMem, file, o.timesheet_data, col, 1)
                      c == [msr_path |-> MsrPath(R), output_path |-> out]
                  IN IF st.error # NoError THEN caught(st.error)
                     ELSE IF save = "fails"
                     THEN [caught("IOError: save") EXCEPT !.save = save]
                     ELSE IF save = "fails half written"
                     THEN [caught("IOError: save") EXCEPT
                             !.disk = [d EXCEPT ![out] = Corrupt], !.save = save]
                     ELSE [entry |-> ResultEntry(R, st, out),
                           disk |-> wb_save(d, c, st.wb), raised |-> FALSE,
                           save |-> save]

\* employee mapping files with charge codes of TO1, TO8 and TO6
OrchMappings ==
  LET all == {"TO1", "TO8", "TO6"}
      two == {"TO8", "TO6"}
  IN { << Entry("Jane Doe", all, "R100", "TO1", NoKey, 3),
          Entry("Jane Doe", all, "R200", "TO8", "CLIN 0001AA", 3),
          Entry("John Doe", two, "R200", "TO6", NoKey, 4),
          Entry("John Doe", two, "R100", "TO8", "CLIN 0002AA", 4) >>,
       \* a TO8 charge code whose mapping names no sheet
       << Entry("Jane Doe", all, "R100", "TO1", NoKey, 3),
          Entry("Jane Doe", all, "R200", "TO8", NoKey, 3),
          Entry("John Doe", two, "R200", "TO6", NoKey, 4) >> }

\* a sheet whose second period has no date in the header row
UndatedSheet == set_value(TemplateSheet, sheet_settings.date_header_row, 2, None)

\* the report files a run may be given: missing, complete, lacking the (last)
\* sheet, or with the undated header
OrchFiles(R) ==
  {Absent} \cup {Xlsx(w) : w \in WorkbooksFor(R)}
           \cup {Xlsx([sh \in {SheetsOf(R)[i] : i \in 1 .. Len(SheetsOf(R))} |->
                         UndatedSheet])}

\* the month the run is for: in column 1, in column 2, in no column
OrchMonths == { <<2025, 12>>, <<2026, 1>>, <<2026, 3>> }

SaveOutcomes == {"saved", "fails", "fails half written"}

InitOrch ==
  /\ report = "TO1"
  /\ mappings \in OrchMappings
  /\ \E f1 \in OrchFiles("TO1"), f8 \in OrchFiles("TO8"), f6 \in OrchFiles("TO6") :
       disk = [p \in OrchPaths |->
                 CASE p = "to1_msr" -> f1 [] p = "to8_msr" -> f8 [] p = "to6_msr" -> f6
                   [] OTHER -> Absent]
  /\ pc = 0
  /\ call = NoCall
  /\ mem = NoMem
  /\ history = << >>
  /\ NoAggregation
  /\ \E timesheet_data \in TimesheetSet, ym \in OrchMonths :
       orch = [NoOrch EXCEPT !.pc = "TO1", !.timesheet_data = timesheet_data,
                             !.target_year = ym[1], !.target_month = ym[2],
                             !.before = disk]

OrchNext(R) ==
  CASE R = "TO1" -> "TO8" [] R = "TO8" -> "TO6" [] R = "TO6" -> "summary"

\* the try block of report R
OrchReport(R, save) ==
  /\ orch.pc = R
  /\ LET r == try_report(R, disk, orch, save)
     IN /\ disk' = r.disk
        /\ orch' = [orch EXCEPT
                      !.pc = IF r.raised THEN "raised" ELSE OrchNext(R),
                      !.attempted = Append(@, R),
                      !.save = (R :> r.save) @@ @,
                      !.results = IF r.raised THEN @ ELSE (R :> r.entry) @@ @]
  /\ UNCHANGED <<report, mappings, pc, call, mem, history, aggVars, fnVars, wsrVars>>

\* successful = sum(1 for r in results.values() if 'error' not in r); return results
OrchSummary ==
  /\ orch.pc = "summary"
  /\ orch' = [orch EXCEPT
                !.pc = "done",
                !.successful = Cardinality({R \in DOMAIN orch.results :
                                              orch.results[R].kind # "error"})]
  /\ UNCHANGED <<report, mappings, disk, pc, call, mem, history, aggVars, fnVars, wsrVars>>

NextOrch ==
  \/ \E save \in SaveOutcomes : OrchReport("TO1", save)
  \/ \E save \in SaveOutcomes : OrchReport("TO8", save)
  \/ \E save \in SaveOutcomes : OrchReport("TO6", save)
  \/ OrchSummary

SpecOrch == InitOrch /\ [][NextOrch]_vars

----------------------------------------------------------------------------
(* The aggregation alone *)

InitAggregation ==
  /\ InitAgg
  /\ report = "TO1"
  /\ mappings = << >>
  /\ disk = [p \in {} |-> Absent]
  /\ pc = 0
  /\ call = NoCall
  /\ mem = NoMem
  /\ history = << >>
  /\ orch = NoOrch

NextAgg ==
  \/ \E row \in CsvRows : ReadCsvRow(row)
  \/ \E ts \in Timesheets : ReadTimesheet(ts)

SpecAgg == InitAggregation /\ [][NextAgg]_vars

----------------------------------------------------------------------------
(* The week column locator (agents/wsr_updater.py) *)

\* "if cell_value": None, the empty text and 0 count as false
truthy(v) ==
  \/ v.kind = "str" /\ v.s # ""
  \/ v.kind = "num" /\ v.n # 0
  \/ v.kind = "date"

\* str(cell_value), for the texts and whole numbers of the header row
str_of(v) == IF v.kind = "str" THEN v.s ELSE IF v.kind = "num" THEN str(v.n) ELSE ""

\* a "Total" cell of the year among the ten columns from col on
week_confirmed(sheet, year, col) ==
  \E check_col \in col .. (col + 10) - 1 :
    LET check_val == cell_value(sheet, 3, check_col)
    IN /\ truthy(check_val)
       /\ Contains(str_of(check_val), "Total")
       /\ Contains(str_of(check_val), str(year))

\* mutant: a match that no "Total" cell of the year confirms is passed over
RECURSIVE find_week_column_confirmed_in(_, _, _, _, _)
find_week_column_confirmed_in(sheet, week_label, year, first, last) ==
  IF first = last
  THEN LET cell == cell_value(sheet, 3, first)
       IN IF /\ truthy(cell) /\ Contains(str_of(cell), week_label)
             /\ week_confirmed(sheet, year, first)
          THEN first
          ELSE 0
  ELSE LET middle == (first + last) \div 2
           col == find_week_column_confirmed_in(sheet, week_label, year, first, middle)
       IN IF col # 0 THEN col
          ELSE find_week_column_confirmed_in(sheet, week_label, year, middle + 1, last)

find_week_column_confirmed(sheet, week_label, year) ==
  find_week_column_confirmed_in(sheet, week_label, year, 100, 199)

\* "for col in range(first, last + 1)": the first column that holds the label,
\* 0 for none; the columns are gone through in order, the lower half of the
\* range before the upper half
RECURSIVE find_week_column_in(_, _, _, _, _)
find_week_column_in(sheet, week_label, year, first, last) ==
  IF first = last
  THEN LET cell == cell_value(sheet, 3, first)
       IN IF truthy(cell) /\ Contains(str_of(cell), week_label)
          THEN (IF week_confirmed(sheet, year, first) THEN first ELSE first)
          ELSE 0
  ELSE LET middle == (first + last) \div 2
           col == find_week_column_in(sheet, week_label, year, first, middle)
       IN IF col # 0 THEN col
          ELSE find_week_column_in(sheet, week_label, year, middle + 1, last)

\* find_week_column(sheet, week_label, year): "for col in range(100, 200)";
\* the column found, 0 for None
find_week_column(sheet, week_label, year) ==
  find_week_column_in(sheet, week_label, year, 100, 199)

----------------------------------------------------------------------------
(* The calendar of the weekly report (agents/wsr_updater.py) *)

\* a datetime at midnight
Day(y, m, d) == [year |-> y, month |-> m, day |-> d]

IsLeap(y) == (y % 4 = 0 /\ y % 100 # 0) \/ y % 400 = 0

\* monthrange(year, month)[1]
DaysInMonth(y, m) ==
  IF m = 2 THEN (IF IsLeap(y) THEN 29 ELSE 28)
  ELSE IF m \in {4, 6, 9, 11} THEN 30 ELSE 31

RECURSIVE DaysBeforeMonth(_, _)
DaysBeforeMonth(y, m) ==
  IF m = 1 THEN 0 ELSE DaysBeforeMonth(y, m - 1) + DaysInMonth(y, m - 1)

\* date.toordinal(): the days from 0001-01-01, which is day 1
toordinal(date) ==
  LET y == date.year - 1
  IN ((((y * 365) + (y \div 4)) - (y \div 100)) + (y \div 400))
       + DaysBeforeMonth(date.year, date.month) + date.day

\* date.weekday(): Monday is 0
weekday(date) == (toordinal(date) + 6) % 7

\* date - timedelta(days=1), date + timedelta(days=1)
yesterday(date) ==
  IF date.day > 1 THEN Day(date.year, date.month, date.day - 1)
  ELSE IF date.month > 1
       THEN Day(date.year, date.month - 1, DaysInMonth(date.year, date.month - 1))
       ELSE Day(date.year - 1, 12, 31)

tomorrow(date) ==
  IF date.day < DaysInMonth(date.year, date.month)
  THEN Day(date.year, date.month, date.day + 1)
  ELSE IF date.month < 12 THEN Day(date.year, date.month + 1, 1)
       ELSE Day(date.year + 1, 1, 1)

\* date + timedelta(days=n), n >= 0
RECURSIVE plus_days(_, _)
plus_days(date, n) == IF n = 0 THEN date ELSE plus_days(tomorrow(date), n - 1)

\* str(n) with zeros in front up to width characters: '%02d', '%04d'
RECURSIVE zero_padded(_, _)
zero_padded(text, width) ==
  IF Len(text) >= width THEN text ELSE zero_padded("0" \o text, width)

\* date.strftime("%Y-%m-%d")
strftime_Y_m_d(date) ==
  zero_padded(str(date.year), 4) \o "-" \o zero_padded(str(date.month), 2)
    \o "-" \o zero_padded(str(date.day), 2)

\* datetime.strptime(text, "%Y-%m-%d"), for a text that strftime wrote
strptime_Y_m_d(text) ==
  Day(int(slice(text, 1, 4)), int(slice(text, 6, 7)), int(slice(text, 9, 10)))

\* date.strftime('%b')
strftime_b(date) ==
  << "Jan", "Feb", "Mar", "Apr", "May", "Jun", "Jul", "Aug", "Sep", "Oct", "Nov",
     "Dec" >>[date.month]

\* format_week_label(start_date, end_date): 'Jan 5-9', 'Mar 30-Apr 3'
format_week_label(start_date, end_date) ==
  LET start == strptime_Y_m_d(start_date)
      end == strptime_Y_m_d(end_date)
  IN IF start.month = end.month
     THEN strftime_b(start) \o " " \o str(start.day) \o "-" \o str(end.day)
     ELSE strftime_b(start) \o " " \o str(start.day) \o "-" \o strftime_b(end)
            \o " " \o str(end.day)

\* "while current.weekday() != 0: current -= timedelta(days=1)"
RECURSIVE monday_on_or_before(_)
monday_on_or_before(current) ==
  IF weekday(current) = 0 THEN current ELSE monday_on_or_before(yesterday(current))

\* mutant: a week that reaches over the month boundary is not clipped
RECURSIVE weeks_from_unclipped(_, _, _, _)
weeks_from_unclipped(current, month, first_day, last_day) ==
  IF toordinal(current) > toordinal(last_day) THEN << >>
  ELSE LET monday == current
           friday == plus_days(current, 4)
           rest == weeks_from_unclipped(plus_days(current, 7), month, first_day,
                                        last_day)
       IN IF monday.month = month \/ friday.month = month
          THEN << << strftime_Y_m_d(monday), strftime_Y_m_d(friday) >> >> \o rest
          ELSE rest

\* "while current <= last_day", from the Monday current on
RECURSIVE weeks_from(_, _, _, _)
weeks_from(current, month, first_day, last_day) ==
  IF toordinal(current) > toordinal(last_day) THEN << >>
  ELSE LET monday == current
           friday == plus_days(current, 4)
           week_start == IF monday.month # month THEN first_day ELSE monday
           week_end == IF friday.month # month THEN last_day ELSE friday
           rest == weeks_from(plus_days(current, 7), month, first_day, last_day)
       IN IF monday.month = month \/ friday.month = month
          THEN << << strftime_Y_m_d(week_start), strftime_Y_m_d(week_end) >> >> \o rest
          ELSE rest

\* get_weeks_in_month(year, month)
get_weeks_in_month(year, month) ==
  LET first_day == Day(year, month, 1)
      last_day == Day(year, month, DaysInMonth(year, month))
  IN weeks_from(monday_on_or_before(first_day), month, first_day, last_day)

----------------------------------------------------------------------------
(* The monthly roll-up (agents/wsr_updater.py, rollup_monthly) *)

\* x * y on floats
float_mul(x, y) == float_round(x * y)

\* the default rates, in cents
EMPLOYEE_RATES ==
  [e \in {"David Thompson", "Nathan Ruf", "Philip Yang"} |->
     CASE e = "David Thompson" -> 21115
       [] e = "Nathan Ruf" -> 18741
       [] e = "Philip Yang" -> 21115]

\* date.strftime("%B")
strftime_B(date) ==
  << "January", "February", "March", "April", "May", "June", "July", "August",
     "September", "October", "November", "December" >>[date.month]

\* "for row in [4, 5, 6]"
EmployeeRows == << 4, 5, 6 >>

\* employees[emp_name] = {...}: a dict keeps a key where it was first inserted
dict_put(d, emp) ==
  IF \E i \in 1 .. Len(d) : d[i].name = emp.name
  THEN [i \in 1 .. Len(d) |-> IF d[i].name = emp.name THEN emp ELSE d[i]]
  ELSE Append(d, emp)

\* the employee rows of the detail sheet, from the i-th of EmployeeRows on
RECURSIVE read_employees(_, _, _)
read_employees(clin_sheet, emps, i) ==
  IF i > Len(EmployeeRows) THEN emps
  ELSE LET row == EmployeeRows[i]
           emp_name == cell_value(clin_sheet, row, 2)
       IN IF truthy(emp_name) /\ emp_name # Str("Employee")
          THEN read_employees(clin_sheet,
                 dict_put(emps, [name |-> str_of(emp_name), row |-> row,
                                 position |-> cell_value(clin_sheet, row, 1),
                                 clin |-> cell_value(clin_sheet, row, 3),
                                 detail |-> cell_value(clin_sheet, row, 4),
                                 rate |-> cell_value(clin_sheet, row, 5),
                                 wbs |-> cell_value(clin_sheet, row, 6),
                                 charge_no |-> cell_value(clin_sheet, row, 14)]),
                 i + 1)
          ELSE read_employees(clin_sheet, emps, i + 1)

\* "float(value or 0)" of a cell that holds a number or nothing
float_or_0(v) == IF truthy(v) /\ v.kind = "num" THEN v.n ELSE 0

\* mutant: the status cell of the week column is not looked at
week_hours_any_status(clin_sheet, emps, monthly_hours, week, year) ==
  LET week_label == format_week_label(week[1], week[2])
      col == find_week_column(clin_sheet, week_label, year)
  IN IF col # 0
     THEN [e \in DOMAIN monthly_hours |->
             LET emp_data == emps[CHOOSE i \in 1 .. Len(emps) : emps[i].name = e]
             IN float_add(monthly_hours[e],
                          float_or_0(cell_value(clin_sheet, emp_data.row, col)))]
     ELSE monthly_hours

\* one pass of "for week_start, week_end in weeks": the monthly hours after it
week_hours(clin_sheet, emps, monthly_hours, week, year) ==
  LET week_label == format_week_label(week[1], week[2])
      col == find_week_column(clin_sheet, week_label, year)
  IN IF col # 0
     THEN LET status == cell_value(clin_sheet, 2, col)
          IN IF status = Str("Actual")
             THEN [e \in DOMAIN monthly_hours |->
                     LET emp_data == emps[CHOOSE i \in 1 .. Len(emps) : emps[i].name = e]
                     IN float_add(monthly_hours[e],
                                  float_or_0(cell_value(clin_sheet, emp_data.row, col)))]
             ELSE monthly_hours
     ELSE monthly_hours

\* the loop over the weeks, from the i-th week on
RECURSIVE sum_weeks(_, _, _, _, _, _)
sum_weeks(clin_sheet, emps, monthly_hours, weeks, year, i) ==
  IF i > Len(weeks) THEN monthly_hours
  ELSE sum_weeks(clin_sheet, emps,
                 week_hours(clin_sheet, emps, monthly_hours, weeks[i], year),
                 weeks, year, i + 1)

\* "while data_sheet.cells(next_row, 1).value: next_row += 1"
RECURSIVE next_empty_row(_, _)
next_empty_row(data_sheet, next_row) ==
  IF truthy(cell_value(data_sheet, next_row, 1))
  THEN next_empty_row(data_sheet, next_row + 1)
  ELSE next_row

\* "rate = emp_data['rate'] or EMPLOYEE_RATES.get(emp_name, 0)"
rate_of(emp_data) ==
  IF truthy(emp_data.rate) THEN emp_data.rate.n
  ELSE IF emp_data.name \in DOMAIN EMPLOYEE_RATES THEN EMPLOYEE_RATES[emp_data.name]
  ELSE 0

\* the eleven cells of one ledger row
write_row(data_sheet, next_row, emp_data, hrs, rate, cost, month_str) ==
  LET c1 == set_value(data_sheet, next_row, 1, Str("Vertekal"))
      c2 == set_value(c1, next_row, 2, emp_data.charge_no)
      c3 == set_value(c2, next_row, 3, Str(emp_data.name))
      c4 == set_value(c3, next_row, 4, emp_data.clin)
      c5 == set_value(c4, next_row, 5, emp_data.position)
      c6 == set_value(c5, next_row, 6, Num(rate))
      c7 == set_value(c6, next_row, 7, emp_data.wbs)
      c8 == set_value(c7, next_row, 8, emp_data.detail)
      c9 == set_value(c8, next_row, 9, Num(hrs))
      c10 == set_value(c9, next_row, 10, Num(cost))
  IN set_value(c10, next_row, 11, Str(month_str))

\* "for emp_name, emp_data in employees.items()", from the i-th employee on:
\* the ledger sheet, the rows added and the next row after it
RECURSIVE append_rows(_, _, _, _, _)
append_rows(st, emps, monthly_hours, month_str, i) ==
  IF i > Len(emps) THEN st
  ELSE LET emp_data == emps[i]
           hrs == monthly_hours[emp_data.name]
           rate == rate_of(emp_data)
           cost == float_mul(hrs, rate)
       IN IF hrs > 0
          THEN append_rows(
                 [data_sheet |-> write_row(st.data_sheet, st.next_row, emp_data, hrs,
                                           rate, cost, month_str),
                  rollup_data |-> Append(st.rollup_data,
                                         [employee |-> emp_data.name, hours |-> hrs,
                                          rate |-> rate, cost |-> cost,
                                          row |-> st.next_row]),
                  next_row |-> st.next_row + 1],
                 emps, monthly_hours, month_str, i + 1)
          ELSE append_rows(st, emps, monthly_hours, month_str, i + 1)

----------------------------------------------------------------------------
(* The period parser (utils/date_finder.py) *)

MonthAbbreviations ==
  << "jan", "feb", "mar", "apr", "may", "jun", "jul", "aug", "sep", "oct", "nov", "dec" >>
MonthNames ==
  << "january", "february", "march", "april", "may", "june", "july", "august",
     "september", "october", "november", "december" >>

\* the position of a text in a tuple of texts, 0 when it is not there
Position(text, names) ==
  LET at == {i \in 1 .. Len(names) : names[i] = text}
  IN IF at = {} THEN 0 ELSE CHOOSE i \in at : TRUE

AllDigits(text) == \A i \in 1 .. Len(text) : IsDigit(slice(text, i, i))

\* the length of the longest prefix of letters: the group ([A-Za-z]+)
RECURSIVE letters_prefix(_)
letters_prefix(text) ==
  IF Len(text) > 0 /\ IsLetter(slice(text, 1, 1))
  THEN 1 + letters_prefix(slice(text, 2, Len(text))) ELSE 0

ValueError == [kind |-> "ValueError", col |-> 0, year |-> 0, month |-> 0]
YearMonth(year, month) == [kind |-> "tuple", col |-> 0, year |-> year, month |-> month]

\* datetime.strptime(text, '%B %Y'): a month name, white space, four digits
strptime_B_Y(text) ==
  LET k == letters_prefix(text)
      month == Position(lower(slice(text, 1, k)), MonthNames)
      rest == lstrip(slice(text, k + 1, Len(text)))
  IN IF /\ month # 0
        /\ Len(rest) < Len(text) - k
        /\ Len(rest) = 4 /\ AllDigits(rest)
        /\ int(rest) >= 1
     THEN YearMonth(int(rest), month)
     ELSE ValueError

\* datetime.strptime(text, '%Y-%m'): four digits, "-", a month of one or two digits
strptime_Y_m(text) ==
  LET year == slice(text, 1, 4)
      month == slice(text, 6, Len(text))
  IN IF /\ Len(text) \in {6, 7}
        /\ AllDigits(year) /\ slice(text, 5, 5) = "-" /\ AllDigits(month)
        /\ int(month) \in 1 .. 12
        /\ int(year) >= 1
     THEN YearMonth(int(year), int(month))
     ELSE ValueError

\* mutant: the pattern ([A-Za-z]+)-(\d{2}) has to match the whole text
parse_month_input_fullmatch(month_input) ==
  LET month_str == strip(month_input)
      k == letters_prefix(month_str)
      matched == /\ k >= 1
                 /\ slice(month_str, k + 1, k + 1) = "-"
                 /\ Len(month_str) = k + 3
                 /\ AllDigits(slice(month_str, k + 2, k + 3))
      month == Position(lower(slice(month_str, 1, k)), MonthAbbreviations)
  IN IF matched
     THEN (IF month # 0
           THEN YearMonth(2000 + int(slice(month_str, k + 2, k + 3)), month)
           ELSE ValueError)
     ELSE IF strptime_B_Y(month_str) # ValueError THEN strptime_B_Y(month_str)
     ELSE strptime_Y_m(month_str)

\* parse_month_input: re.match looks for the pattern at the start of the text
\* and lets anything follow it; strptime(month_name, '%b') raises ValueError
parse_month_input(month_input) ==
  LET month_str == strip(month_input)
      k == letters_prefix(month_str)
      matched == /\ k >= 1
                 /\ slice(month_str, k + 1, k + 1) = "-"
                 /\ Len(month_str) >= k + 3
                 /\ AllDigits(slice(month_str, k + 2, k + 3))
      month == Position(lower(slice(month_str, 1, k)), MonthAbbreviations)
  IN IF matched
     THEN (IF month # 0
           THEN YearMonth(2000 + int(slice(month_str, k + 2, k + 3)), month)
           ELSE ValueError)
     ELSE IF strptime_B_Y(month_str) # ValueError THEN strptime_B_Y(month_str)
     ELSE strptime_Y_m(month_str)

----------------------------------------------------------------------------
(* The orchestrator from its first statement *)

\* the month as typed: in column 1, in column 2, in no column, unparseable,
\* and a text the parser takes for January 2020
RunMonthInputs == {"Dec-25", "January 2026", "2026-03", "Jan 2026", "Jan-2026"}

\* output_dir.mkdir(...) and open(config_dir / 'msr_settings.json') with json.load
SetupOutcomes == {"ok", "mkdir raises OSError", "settings not loadable"}

InitRun ==
  /\ report = "TO1"
  /\ mappings \in OrchMappings
  /\ \E f1 \in OrchFiles("TO1"), f8 \in OrchFiles("TO8"), f6 \in OrchFiles("TO6") :
       disk = [p \in OrchPaths |->
                 CASE p = "to1_msr" -> f1 [] p = "to8_msr" -> f8 [] p = "to6_msr" -> f6
                   [] OTHER -> Absent]
  /\ pc = 0
  /\ call = NoCall
  /\ mem = NoMem
  /\ history = << >>
  /\ NoAggregation
  /\ \E timesheet_data \in TimesheetSet, month_str \in RunMonthInputs :
       orch = [NoOrch EXCEPT !.pc = "start", !.month_str = month_str,
                             !.timesheet_data = timesheet_data, !.before = disk]

\* "try: target_year, target_month = parse_month_input(month_str)
\*  except ValueError: return None"
OrchParse ==
  /\ orch.pc = "start"
  /\ LET parsed == parse_month_input(orch.month_str)
     IN orch' = IF parsed = ValueError
                THEN [orch EXCEPT !.pc = "returned None"]
                ELSE [orch EXCEPT !.pc = "setup", !.target_year = parsed.year,
                                  !.target_month = parsed.month]
  /\ UNCHANGED <<report, mappings, disk, pc, call, mem, history, aggVars, fnVars, wsrVars>>

\* the output directory and the settings, outside any try block
OrchSetup(outcome) ==
  /\ orch.pc = "setup"
  /\ orch' = [orch EXCEPT !.pc = IF outcome = "ok" THEN "TO1" ELSE "raised"]
  /\ UNCHANGED <<report, mappings, disk, pc, call, mem, history, aggVars, fnVars, wsrVars>>

NextRun ==
  \/ OrchParse
  \/ \E outcome \in SetupOutcomes : OrchSetup(outcome)
  \/ \E save \in SaveOutcomes : OrchReport("TO1", save)
  \/ \E save \in SaveOutcomes : OrchReport("TO8", save)
  \/ \E save \in SaveOutcomes : OrchReport("TO6", save)
  \/ OrchSummary

SpecRun == InitRun /\ [][NextRun]_vars

----------------------------------------------------------------------------
(* The functions that find the period and its column, each applied to its  *)
(* arguments                                                                *)

MaxCol == 4
MaxHeaders == 2

\* what a cell of a date header row may hold
HeaderCells == {None, Str("Jan-26"), Date(2025, 12), Date(2026, 1)}

\* a sheet whose date header row holds the cells of header, from column 1 on
HeaderSheet(header) ==
  [value |-> [c \in {settings.TO1.date_header_row} \X (1 .. Len(header)) |-> header[c[2]]],
   fill  |-> [c \in {} |-> NoFill]]

TargetMonths == {<<2026, 1>>, <<2025, 1>>, <<2026, 12>>, <<2025, 12>>}

MonthColumnCalls ==
  {[NoApplied EXCEPT !.op = "find_month_column", !.sheet = HeaderSheet(h),
                     !.year = t[1], !.month = t[2]] :
     h \in UNION {[1 .. n -> HeaderCells] : n \in 1 .. MaxCol}, t \in TargetMonths}

\* a column number, or None
Column(col) ==
  [kind |-> IF col = 0 THEN "None" ELSE "int", col |-> col, year |-> 0, month |-> 0]

\* the columns around the range that find_week_column scans
WeekCols == {99, 100, 101, 109, 110, 199, 200}

WeekHeaders == {"Jan 5-9", "Week of Jan 5-9", "Jan 12-16", "January 2026 Total"}

\* sheets with up to MaxHeaders header cells in row 3
WeekSheets ==
  UNION {{[value |-> [c \in {3} \X cols |-> Str(h[c[2]])],
           fill  |-> [c \in {} |-> NoFill]] : h \in [cols -> WeekHeaders]} :
         cols \in {cs \in SUBSET WeekCols : Cardinality(cs) <= MaxHeaders}}

WeekLabels == {"Jan 5-9", "Jan 12-16"}
WeekYears == {2025, 2026}

WeekColumnCalls ==
  {[NoApplied EXCEPT !.op = "find_week_column", !.sheet = sh, !.text = l, !.year = y] :
     sh \in WeekSheets, l \in WeekLabels, y \in WeekYears}

MonthInputs ==
  {"Jan-26", " Jan-26 ", "jan-26", "Sep-26", "Sept-26", "January-26", "Jan-2026",
   "Jan-26x", "Jan-2", "Jan 26", "January 2026", "january  2026", "January 26",
   "Jan 2026", "January 2026x", "May 2026", "2026-01", "2026-1", "2026-13",
   "2026-00", "26-01", "2026-01-15", "2026/01", "", "Jan", "x Jan-26", "Dec-25",
   "December 2025", "2025-12"}

MonthInputCalls ==
  {[NoApplied EXCEPT !.op = "parse_month_input", !.text = t] : t \in MonthInputs}

\* the years of the calendar calls: every weekday the 1st of a month can be,
\* in leap years and others
CalendarYears == 2023 .. 2028

WeeksInMonthCalls ==
  {[NoApplied EXCEPT !.op = "get_weeks_in_month", !.year = y, !.month = m] :
     y \in CalendarYears, m \in 1 .. 12}

\* the records the API returns for a week, at most MaxRows of them
WeekHoursCalls ==
  {[NoApplied EXCEPT !.op = "get_tsheets_hours_for_week", !.timesheets = t] :
     t \in UNION {[1 .. n -> Timesheets] : n \in 0 .. MaxRows}}

InitPeriod ==
  /\ \/ applied \in MonthColumnCalls
     \/ applied \in WeekHoursCalls
     \/ applied \in WeekColumnCalls
     \/ applied \in MonthInputCalls
     \/ applied \in WeeksInMonthCalls
  /\ report = "TO1"
  /\ mappings = << >>
  /\ disk = [p \in {} |-> Absent]
  /\ pc = 0
  /\ call = NoCall
  /\ mem = NoMem
  /\ history = << >>
  /\ orch = NoOrch
  /\ source = ""
  /\ rows = << >>
  /\ employees = NoEmployees
  /\ wsr = NoWsr

\* find_month_column(worksheet, date_header_row, target_year, target_month)
FindMonthColumn ==
  /\ applied.op = "find_month_column"
  /\ ~applied.done
  /\ applied' = [applied EXCEPT
                   !.done = TRUE,
                   !.result = Column(find_month_column(applied.sheet,
                                                       settings.TO1.date_header_row,
                                                       applied.year, applied.month))]
  /\ UNCHANGED <<updVars, aggVars, orchVars, wsrVars>>

\* find_week_column(sheet, week_label, year)
FindWeekColumn ==
  /\ applied.op = "find_week_column"
  /\ ~applied.done
  /\ applied' = [applied EXCEPT
                   !.done = TRUE,
                   !.result = Column(find_week_column(applied.sheet, applied.text,
                                                      applied.year))]
  /\ UNCHANGED <<updVars, aggVars, orchVars, wsrVars>>

\* parse_month_input(month_str): returns (year, month) or raises ValueError
ParseMonthInput ==
  /\ applied.op = "parse_month_input"
  /\ ~applied.done
  /\ applied' = [applied EXCEPT !.done = TRUE,
                                !.result = parse_month_input(applied.text)]
  /\ UNCHANGED <<updVars, aggVars, orchVars, wsrVars>>

\* get_weeks_in_month(year, month): the list of (start, end) texts
GetWeeksInMonth ==
  /\ applied.op = "get_weeks_in_month"
  /\ ~applied.done
  /\ applied' = [applied EXCEPT
                   !.done = TRUE,
                   !.weeks = get_weeks_in_month(applied.year, applied.month)]
  /\ UNCHANGED <<updVars, aggVars, orchVars, wsrVars>>

\* get_tsheets_hours_for_week(start_date, end_date): employee -> hours
GetTsheetsHoursForWeek ==
  /\ applied.op = "get_tsheets_hours_for_week"
  /\ ~applied.done
  /\ applied' = [applied EXCEPT
                   !.done = TRUE,
                   !.hours = get_tsheets_hours_for_week(applied.timesheets)]
  /\ UNCHANGED <<updVars, aggVars, orchVars, wsrVars>>

NextPeriod ==
  \/ GetWeeksInMonth
  \/ GetTsheetsHoursForWeek
  \/ FindMonthColumn
  \/ FindWeekColumn
  \/ ParseMonthInput

SpecPeriod == InitPeriod /\ [][NextPeriod]_vars

----------------------------------------------------------------------------
(* Properties of the updaters *)

\* the charge codes claimed to be written by an update of report R
MappedTo(R) == {i \in 1 .. Len(mappings) : R \in mappings[i].msrs /\ mappings[i].msr = R}

SheetOfEntry(R, m) == IF Len(SheetsOf(R)) = 1 THEN SheetsOf(R)[1] ELSE m.sheet

Calls == {history[k] : k \in 1 .. Len(history)}

Saved(h) == h.after[h.output_path].wb

\* C2: after a successful update of report R, for every charge code mapped to R
\* of an employee assigned to R, the cell (mapped row, target_column) holds the
\* aggregated hours of (employee, charge code), 0 when the data has none, and
\* the returned updates hold exactly one record with that value for the pair.
C2_MappedCellsHoldHours ==
  \A h \in Calls :
    h.status = "ok" =>
      \A i \in MappedTo(report) :
        LET m == mappings[i]
            hours == emp_hours(h.timesheet_data, m.employee, m.charge_code)
            recs == {j \in 1 .. Len(h.updates) :
                       /\ h.updates[j].employee = m.employee
                       /\ h.updates[j].charge_code = m.charge_code}
        IN /\ SheetOfEntry(report, m) \in DOMAIN Saved(h)
           /\ cell_value(Saved(h)[SheetOfEntry(report, m)], m.row, h.target_column)
                = Num(hours)
           /\ Cardinality(recs) = 1
           /\ \A j \in recs : h.updates[j].row = m.row /\ h.updates[j].hours = hours

\* C3: after a successful update the status-row cell at target_column holds
\* "Actual" in every sheet the report variant works on, whatever it held before.
C3_StatusIsActual ==
  \A h \in Calls :
    h.status = "ok" =>
      \A i \in 1 .. Len(SheetsOf(report)) :
        cell_value(Saved(h)[SheetsOf(report)[i]], StatusRowOf(report, i), h.target_column)
          = Str("Actual")

\* a two-sheet report was updated in a column whose status cells held "Estimate"
C3_Witness ==
  \E h \in Calls :
    /\ h.status = "ok"
    /\ Len(SheetsOf(report)) = 2
    /\ \A i \in 1 .. 2 :
         cell_value(h.before[h.msr_path].wb[SheetsOf(report)[i]],
                    StatusRowOf(report, i), h.target_column) = Str("Estimate")

\* C4: after a successful TO1 update the total-row cell at target_column holds
\* the sum of the hours written into the employee rows by that update, which is
\* also the total_hours of the returned summary.
C4_TotalIsSumOfWritten ==
  \A h \in Calls :
    (h.status = "ok" /\ report = "TO1") =>
      /\ cell_value(Saved(h)["Extension Period MSR"], settings.TO1.total_row,
                    h.target_column) = Num(SumHours(h.updates))
      /\ h.total_hours = SumHours(h.updates)

\* a TO1 update wrote two positive values
C4_Witness ==
  \E h \in Calls :
    /\ h.status = "ok"
    /\ report = "TO1"
    /\ Len(h.updates) = 2
    /\ h.updates[1].hours > 0
    /\ h.updates[2].hours > 0

\* C5: a call whose output_path differs from the path of the report it reads,
\* however it ends, leaves the file it reads as it was.
C5_InputFileUnchanged ==
  \A h \in Calls :
    h.output_path # h.msr_path => h.after[h.msr_path] = h.before[h.msr_path]

\* a call wrote an updated workbook to another path than the one it read
C5_Witness ==
  \E h \in Calls :
    /\ h.status = "ok"
    /\ h.output_path # h.msr_path
    /\ h.after[h.output_path] # h.before[h.output_path]
    /\ h.after[h.output_path] # h.before[h.msr_path]

\* C6: a call that raises before the final save, or is terminated before it,
\* leaves the output file absent or exactly as it was before the call.
C6_AllOrNothing ==
  \A h \in Calls :
    (h.status = "terminated" \/ (h.status = "error" /\ h.stage # "save")) =>
      h.after[h.output_path] = h.before[h.output_path]

\* a call failed on a later sheet after it had changed the workbook in memory
C6_Witness ==
  \E h \in Calls :
    /\ h.status = "error"
    /\ h.stage = "sheet"
    /\ h.before[h.msr_path].kind = "xlsx"
    /\ h.wb # h.before[h.msr_path].wb

\* C7: a re-run on the previous output with the same target column returns
\* normally (unless its save fails or it is terminated), and the target column
\* then holds what the re-run alone writes: the same values as an update of the
\* first run's input with the re-run's hours.
C7_RerunOverwrites ==
  \A k \in 2 .. Len(history) :
    LET h1 == history[k - 1]
        h2 == history[k]
        fresh == run_program(report, NoMem, h1.before[h1.msr_path],
                             h2.timesheet_data, h2.target_column, 1)
    IN (/\ h1.status = "ok"
        /\ h2.msr_path = h1.output_path
        /\ h2.target_column = h1.target_column
        /\ h2.status # "terminated"
        /\ h2.stage # "save")
       => /\ h2.status = "ok"
          /\ \A sh \in DOMAIN Saved(h2) : \A row \in Rows :
               cell_value(Saved(h2)[sh], row, h2.target_column)
                 = cell_value(fresh.wb[sh], row, h2.target_column)

\* a TO1 report was updated twice in the same column with different hours
C7_Witness ==
  \E k \in 2 .. Len(history) :
    /\ report = "TO1"
    /\ history[k - 1].status = "ok"
    /\ history[k].status = "ok"
    /\ history[k].msr_path = history[k - 1].output_path
    /\ history[k].target_column = history[k - 1].target_column
    /\ history[k].timesheet_data # history[k - 1].timesheet_data
    /\ history[k].total_hours # history[k - 1].total_hours

\* the report of call h, as opened, lacks a sheet of the settings or a row of
\* a charge code mapped to the report
MissingReference(h) ==
  LET wb == h.before[h.msr_path].wb
  IN \/ \E i \in 1 .. Len(SheetsOf(report)) : SheetsOf(report)[i] \notin DOMAIN wb
     \/ \E i \in MappedTo(report) :
          LET sheet == SheetOfEntry(report, mappings[i])
          IN sheet \in DOMAIN wb /\ mappings[i].row > max_row(wb[sheet])

\* C19: a call on a report that lacks a sheet or a row that the settings or a
\* charge-code mapping refer to fails with an error and saves nothing.
C19_MissingReferenceFails ==
  \A h \in Calls :
    (h.before[h.msr_path].kind = "xlsx" /\ h.status # "terminated" /\ MissingReference(h))
      => /\ h.status = "error"
         /\ h.stage # "save" => h.after[h.output_path] = h.before[h.output_path]

----------------------------------------------------------------------------
(* Properties of the orchestrator *)

\* what the run's inputs make of report R: the summary of the update when the
\* file opens, the column is found, the updater raises nothing and saves, and
\* an error otherwise
OrchSucceeds(R) ==
  LET file == orch.before[MsrPath(R)]
      located == file.kind = "xlsx" /\ LocatorSheet(R) \in DOMAIN file.wb
      col == IF located
             THEN find_month_column(file.wb[LocatorSheet(R)], LocatorRow(R),
                                    orch.target_year, orch.target_month)
             ELSE 0
      st == run_program(R, NoMem, file, orch.timesheet_data, col, 1)
  IN /\ col # 0
     /\ st.error = NoError
     /\ orch.save[R] = "saved"

\* C1: when update_all_msrs returns, TO1, TO8 and TO6 were attempted in this
\* order and the results hold one entry per report: the updater's summary for
\* a report that succeeded, an entry with an error message for one that failed.
C1_AllReportsAttempted ==
  orch.pc \in {"done", "raised"} =>
    /\ orch.pc = "done"
    /\ orch.attempted = OrchReports
    /\ DOMAIN orch.results = {"TO1", "TO8", "TO6"}
    /\ \A R \in {"TO1", "TO8", "TO6"} :
         IF OrchSucceeds(R)
         THEN /\ orch.results[R].kind = "result"
              /\ orch.results[R].output_path = get_msr_output_filename(R)
              /\ orch.results[R].total_hours = SumHours(orch.results[R].updates)
              /\ disk[get_msr_output_filename(R)].kind = "xlsx"
         ELSE /\ orch.results[R].kind = "error"
              /\ orch.results[R].error # NoError
    /\ orch.successful = Cardinality({R \in {"TO1", "TO8", "TO6"} : OrchSucceeds(R)})

\* TO8's column was not found, TO1 before it and TO6 after it were updated
C1_Witness ==
  /\ orch.pc = "done"
  /\ orch.results["TO1"].kind = "result"
  /\ orch.results["TO8"].error = "Column not found"
  /\ orch.results["TO6"].kind = "result"

\* TO1 raised an exception, TO8 and TO6 were still updated
C1_WitnessException ==
  /\ orch.pc = "done"
  /\ orch.results["TO1"].error = "load_workbook failed"
  /\ orch.results["TO8"].kind = "result"
  /\ orch.results["TO6"].kind = "result"

----------------------------------------------------------------------------
(* Properties of the aggregation *)

aggregate(entries) ==
  IF source = "csv" THEN parse_timesheet_csv(entries) ELSE get_tsheets_timesheets(entries)

Permuted(entries, p) == [i \in 1 .. Len(entries) |-> entries[p[i]]]

\* hours of (name, charge code) in an aggregation, 0 when it holds none
HoursIn(emps, name, charge_code) ==
  IF name \in DOMAIN emps /\ charge_code \in DOMAIN emps[name]
  THEN emps[name][charge_code] ELSE 0

\* the primary job code of an entry
PrimaryCode(entry) ==
  IF source = "csv" THEN entry.jobcode_1
  ELSE IF entry.jobcode_id \in DOMAIN jobcode_map THEN jobcode_map[entry.jobcode_id]
  ELSE ""

\* C8: every permutation of the entries read gives the same aggregation, from
\* the CSV rows and from the API's timesheet records. (Three entries of one
\* employee and charge code refute it: float sums depend on the order.)
C8_AggregationCommutes ==
  \A p \in Permutations(1 .. Len(rows)) : aggregate(Permuted(rows, p)) = employees

\* two different entries of one employee and charge code were summed
C8_Witness ==
  /\ Len(rows) = 2
  /\ rows[1] # rows[2]
  /\ \E name \in DOMAIN employees : \E code \in DOMAIN employees[name] :
       /\ HoursIn(aggregate(<< rows[1] >>), name, code) > 0
       /\ HoursIn(aggregate(<< rows[2] >>), name, code) > 0
       /\ HoursIn(aggregate(<< rows[1] >>), name, code)
            # HoursIn(aggregate(<< rows[2] >>), name, code)

\* C9: entries whose primary job code is in the exclusion set contribute
\* nothing: the aggregation equals that of the input without them.
C9_ExcludedContributeNothing ==
  employees = aggregate(SelectSeq(rows, LAMBDA e : PrimaryCode(e) \notin {"PTO", "Holiday"}))

\* an entry with primary code PTO, a secondary code and positive hours was
\* read together with an entry that counts
C9_Witness ==
  /\ source = "csv"
  /\ Len(rows) = 2
  /\ rows[1].jobcode_1 = "PTO" /\ rows[1].jobcode_2 = " B " /\ rows[1].hours = "8"
  /\ rows[2].jobcode_1 = "A" /\ rows[2].jobcode_2 = " B " /\ rows[2].hours = "1"
  /\ rows[2].fname = rows[1].fname
  /\ HoursIn(employees, full_name(rows[2].fname, rows[2].lname), "B") = 1

AllNames == {full_name(f, l) : f \in FnameFields, l \in LnameFields}
AllCodes == {strip(c) : c \in Jobcode1Fields \cup Jobcode2Fields}

\* what an entry stands for: its employee, its resolved charge code, its hours,
\* and whether the rules keep it
Resolved(entry) ==
  IF source = "csv"
  THEN LET hours == IF entry.hours = "" THEN 0 ELSE to_float(entry.hours)
           primary == strip(entry.jobcode_1)
           secondary == strip(entry.jobcode_2)
           code == IF secondary # "" THEN secondary ELSE primary
       IN [name |-> full_name(entry.fname, entry.lname), code |-> code, hours |-> hours,
           kept |-> primary \notin {"PTO", "Holiday"} /\ hours > 0 /\ code # ""]
  ELSE LET hours == IF entry.has_duration THEN entry.duration \div 3600 ELSE 0
           code == PrimaryCode(entry)
           known == entry.user_id \in DOMAIN user_map
       IN [name |-> IF known THEN user_map[entry.user_id] ELSE "",
           code |-> code, hours |-> hours,
           kept |-> known /\ code \notin {"PTO", "Holiday"} /\ hours > 0 /\ code # ""]

\* the kept entries of (name, charge code), in the order of the input
Matching(entries, name, charge_code) ==
  SelectSeq(entries, LAMBDA e : /\ Resolved(e).kept
                                /\ Resolved(e).name = name
                                /\ Resolved(e).code = charge_code)

\* the float sum of the hours of entries, added in their order
RECURSIVE SumOfEntries(_)
SumOfEntries(entries) ==
  IF entries = << >> THEN 0
  ELSE float_add(SumOfEntries(SubSeq(entries, 1, Len(entries) - 1)),
                 Resolved(entries[Len(entries)]).hours)

Present(emps, name, charge_code) ==
  name \in DOMAIN emps /\ charge_code \in DOMAIN emps[name]

\* C11: each (employee, charge code) value of the aggregation is the sum, in
\* the order of the input, of the hours of the kept entries of that employee
\* whose resolved charge code is that code, and a pair is in the result exactly
\* when there is such an entry.
C11_PairIsSumOfMatching ==
  /\ DOMAIN employees \subseteq AllNames
  /\ \A n \in DOMAIN employees : DOMAIN employees[n] \subseteq AllCodes
  /\ \A n \in AllNames : \A c \in AllCodes :
       LET matching == Matching(rows, n, c)
       IN /\ Present(employees, n, c) <=> matching # << >>
          /\ HoursIn(employees, n, c) = SumOfEntries(matching)

\* two kept entries of one pair were summed and a third entry was dropped
C11_Witness ==
  /\ Len(rows) = 3
  /\ \E i \in 1 .. 3 : ~Resolved(rows[i]).kept
  /\ \E n \in AllNames : \E c \in AllCodes :
       /\ Len(Matching(rows, n, c)) = 2
       /\ HoursIn(employees, n, c) = 2

\* C12: no code of the exclusion set is a charge-code key of an employee in
\* the aggregation, whatever the primary and secondary job codes of the entries.
C12_ExcludedNeverAppear ==
  \A n \in DOMAIN employees : DOMAIN employees[n] \cap {"PTO", "Holiday"} = {}

\* C13: every stored hours value is strictly positive, no charge-code key is
\* empty, and an employee appears only with an entry that is kept: entries
\* without hours, with zero or negative hours or without a resolved charge
\* code leave no trace.
C13_DroppedLeaveNoTrace ==
  \A n \in DOMAIN employees :
    /\ DOMAIN employees[n] # {}
    /\ \E i \in 1 .. Len(rows) : Resolved(rows[i]).kept /\ Resolved(rows[i]).name = n
    /\ \A c \in DOMAIN employees[n] : c # "" /\ employees[n][c] > 0

\* entries of one employee with zero, negative and no hours were read, and the
\* employee is not in the aggregation
C13_Witness ==
  /\ Len(rows) = 3
  /\ \E n \in AllNames :
       /\ \A i \in 1 .. 3 : Resolved(rows[i]).name = n
       /\ Resolved(rows[1]).hours = 0
       /\ Resolved(rows[2]).hours < 0
       /\ Resolved(rows[3]).hours = 0 /\ rows[3] # rows[1]
       /\ n \notin DOMAIN employees

\* C10: the hours of a kept CSV entry go to its secondary job code when that
\* is not empty after trimming, and to its primary job code otherwise; no other
\* (employee, charge code) pair changes.
C10_SecondaryCodePrecedence ==
  [][(source = "csv" /\ rows' # rows) =>
       LET row == rows'[Len(rows')]
           name == full_name(row.fname, row.lname)
           hours == IF row.hours = "" THEN 0 ELSE to_float(row.hours)
           primary == strip(row.jobcode_1)
           secondary == strip(row.jobcode_2)
           code == IF secondary # "" THEN secondary ELSE primary
           kept == primary \notin {"PTO", "Holiday"} /\ hours > 0 /\ code # ""
       IN kept =>
            \A n \in AllNames : \A c \in AllCodes :
              HoursIn(employees', n, c)
                = IF n = name /\ c = code
                  THEN float_add(HoursIn(employees, n, c), hours)
                  ELSE HoursIn(employees, n, c)
    ]_vars

\* an entry with primary code A and secondary code B was counted under B only
C10_Witness ==
  /\ source = "csv"
  /\ Len(rows) = 1
  /\ rows[1].jobcode_1 = "A" /\ rows[1].jobcode_2 = " B " /\ rows[1].hours = "8"
  /\ HoursIn(employees, full_name(rows[1].fname, rows[1].lname), "B") = 8
  /\ HoursIn(employees, full_name(rows[1].fname, rows[1].lname), "A") = 0

----------------------------------------------------------------------------
(* Properties of the period and column functions *)

\* the columns of the date header row that hold a date of the target month
MonthMatches(ws, date_header_row, target_year, target_month) ==
  {col \in 1 .. max_column(ws) :
     LET cell == cell_value(ws, date_header_row, col)
     IN cell.kind = "date" /\ cell.n = (target_year * 12) + (target_month - 1)}

\* C14: find_month_column returns the smallest column of 1..max_column whose
\* date header cell is a date of the target year and month, cells that hold no
\* date being ignored, and None exactly when no header cell matches.
C14_MonthColumnIsFirstMatch ==
  (applied.op = "find_month_column" /\ applied.done) =>
    LET found == MonthMatches(applied.sheet, settings.TO1.date_header_row,
                              applied.year, applied.month)
    IN IF found = {}
       THEN applied.result.kind = "None"
       ELSE /\ applied.result.kind = "int"
            /\ applied.result.col \in found
            /\ \A col \in found : applied.result.col <= col

\* headers [None, 2025-12, 2026-01, 2026-01] and the target 2026-01 gave 3
C14_Witness ==
  /\ applied.op = "find_month_column"
  /\ applied.done
  /\ applied.sheet = HeaderSheet(<< None, Date(2025, 12), Date(2026, 1), Date(2026, 1) >>)
  /\ applied.year = 2026 /\ applied.month = 1
  /\ applied.result.col = 3

\* the scanned columns whose row-3 header holds the week label
WeekMatches(sheet, week_label) ==
  {col \in 100 .. 199 :
     LET cell == cell_value(sheet, 3, col)
     IN truthy(cell) /\ Contains(str_of(cell), week_label)}

\* C15: find_week_column returns the first scanned column whose row-3 header
\* holds the week label, confirmed by a "Total" cell of the year or not, so the
\* same column for every year; and None when no scanned header holds the label.
C15_WeekColumnIsFirstMatch ==
  (applied.op = "find_week_column" /\ applied.done) =>
    LET found == WeekMatches(applied.sheet, applied.text)
    IN /\ IF found = {}
          THEN applied.result.kind = "None"
          ELSE /\ applied.result.kind = "int"
               /\ applied.result.col \in found
               /\ \A col \in found : applied.result.col <= col
       /\ \A year \in WeekYears :
            find_week_column(applied.sheet, applied.text, year) = applied.result.col

\* the label was found in a longer header, before another match, with no
\* "Total" cell of the year in the ten columns from it
C15_Witness ==
  /\ applied.op = "find_week_column"
  /\ applied.done
  /\ applied.text = "Jan 5-9"
  /\ cell_value(applied.sheet, 3, 101) = Str("Week of Jan 5-9")
  /\ cell_value(applied.sheet, 3, 199) = Str("Jan 5-9")
  /\ ~week_confirmed(applied.sheet, applied.year, 101)
  /\ applied.result.col = 101

\* C16: both locators find a header cell that matches at any column of the
\* sheet they are given: no match is missed because of a fixed scan range.
C16_NoHardcodedScanRange ==
  applied.done =>
    /\ applied.op = "find_month_column" =>
         (MonthMatches(applied.sheet, settings.TO1.date_header_row,
                       applied.year, applied.month) # {}
            => applied.result.kind = "int")
    /\ applied.op = "find_week_column" =>
         ((\E c \in DOMAIN applied.sheet.value :
             /\ c[1] = 3
             /\ truthy(applied.sheet.value[c])
             /\ Contains(str_of(applied.sheet.value[c]), applied.text))
            => applied.result.kind = "int")

\* the period a text of one of the three formats denotes: "Mon-YY",
\* "Month YYYY", "YYYY-MM"; ValueError for any other text
Denoted(text) ==
  LET t == strip(text)
      abbr == Position(lower(slice(t, 1, 3)), MonthAbbreviations)
      space == IndexOf(" ", t)
      name == Position(lower(slice(t, 1, space - 1)), MonthNames)
      year == slice(t, space + 1, Len(t))
  IN IF Len(t) = 6 /\ abbr # 0 /\ slice(t, 4, 4) = "-" /\ AllDigits(slice(t, 5, 6))
     THEN YearMonth(2000 + int(slice(t, 5, 6)), abbr)
     ELSE IF space # 0 /\ name # 0 /\ Len(lstrip(year)) = 4 /\ AllDigits(lstrip(year))
     THEN YearMonth(int(lstrip(year)), name)
     ELSE IF /\ Len(t) \in {6, 7} /\ AllDigits(slice(t, 1, 4)) /\ slice(t, 5, 5) = "-"
             /\ AllDigits(slice(t, 6, Len(t))) /\ int(slice(t, 6, Len(t))) \in 1 .. 12
     THEN YearMonth(int(slice(t, 1, 4)), int(slice(t, 6, Len(t))))
     ELSE ValueError

\* C17: parse_month_input returns the (year, month) a text of one of the three
\* formats denotes, white space around it ignored, and raises the parse error
\* for every other text.
C17_ParsesTheThreeFormatsOnly ==
  (applied.op = "parse_month_input" /\ applied.done) =>
    applied.result = Denoted(applied.text)

----------------------------------------------------------------------------
(* Properties of the whole orchestrator run *)

\* C18: update_all_msrs never raises and always returns a mapping from report
\* id to a result or an error with a message, whatever fails during the run.
C18_NeverRaisesAlwaysReturnsResults ==
  orch.pc \in {"done", "raised", "returned None"} =>
    /\ orch.pc = "done"
    /\ DOMAIN orch.results = {"TO1", "TO8", "TO6"}
    /\ \A R \in DOMAIN orch.results :
         \/ orch.results[R].kind = "result"
         \/ orch.results[R].kind = "error" /\ orch.results[R].error # NoError

----------------------------------------------------------------------------
(* The monthly roll-up, run on a weekly status report *)

\* the first column the week locator looks at
FirstWeekColumn == 100

\* the week columns of the detail sheet, from FirstWeekColumn on: the last week
\* of January 2026, the weeks of February 2026, the first week of March 2026
DetailWeeks ==
  << "Jan 26-30", "Feb 2-6", "Feb 9-13", "Feb 16-20", "Feb 23-27", "Mar 2-6" >>

\* a week column is not on the sheet, or its status cell holds a status or nothing
WeekStatuses ==
  {f \in [1 .. Len(DetailWeeks) -> {"absent", "Actual", "Estimate", "nothing"}] :
     /\ f[1] = "Actual"
     /\ f[Len(DetailWeeks)] = "Actual"
     /\ \A k \in 3 .. Len(DetailWeeks) : f[k] # "nothing"
     /\ \A k \in 4 .. Len(DetailWeeks) : f[k] # "Estimate"
     /\ f[4] = f[5]}

\* column B and column E of rows 4 to 6: one row per employee with and without a
\* rate of their own; a header row, a rate of 0 and an empty row; one employee
\* on two rows
EmployeeLayouts ==
  { << [name |-> Str("David Thompson"), rate |-> None],
       [name |-> Str("Nathan Ruf"), rate |-> Num(100)],
       [name |-> Str("Jane Doe"), rate |-> None] >>,
    << [name |-> Str("Employee"), rate |-> Str("Rate")],
       [name |-> Str("Nathan Ruf"), rate |-> Num(0)],
       [name |-> None, rate |-> None] >>,
    << [name |-> Str("Philip Yang"), rate |-> Num(100)],
       [name |-> Str("Nathan Ruf"), rate |-> None],
       [name |-> Str("Philip Yang"), rate |-> None] >> }

\* the hours of an employee row in the k-th week column
DetailHours(row, k) ==
  CASE row = 4 -> Num(8)
    [] row = 5 -> (IF k % 2 = 0 THEN Num(2) ELSE None)
    [] OTHER -> Num(1)

\* the "CLIN Level Detail" sheet
ClinSheet(layout, status) ==
  LET weeks == {k \in 1 .. Len(DetailWeeks) : status[k] # "absent"}
      col(k) == (FirstWeekColumn + k) - 1
      cells == {<<row, c>> : row \in 4 .. 6, c \in {1, 2, 3, 4, 5, 6, 14}}
                 \cup {<<row, col(k)>> : row \in 2 .. 6, k \in weeks}
  IN [value |->
        [c \in cells |->
           IF c[2] >= FirstWeekColumn
           THEN LET k == (c[2] - FirstWeekColumn) + 1
                IN CASE c[1] = 2 -> (IF status[k] = "nothing" THEN None
                                     ELSE Str(status[k]))
                     [] c[1] = 3 -> Str(DetailWeeks[k])
                     [] OTHER -> DetailHours(c[1], k)
           ELSE CASE c[2] = 1 -> Str("PLC")
                  [] c[2] = 2 -> layout[c[1] - 3].name
                  [] c[2] = 3 -> Str("0001")
                  [] c[2] = 4 -> Str("Labor")
                  [] c[2] = 5 -> layout[c[1] - 3].rate
                  [] c[2] = 6 -> Str("WBS")
                  [] OTHER -> Str("CN")],
      fill |-> [c \in {} |-> NoFill]]

\* the "Data" sheet: the header row alone; one row below it; a row below it whose
\* column A is empty between two rows
LedgerRow(data_sheet, row, month_str) ==
  write_row(data_sheet, row,
            [name |-> "Nathan Ruf", row |-> 5, position |-> Str("PLC"),
             clin |-> Str("0001"), detail |-> Str("Labor"), rate |-> None,
             wbs |-> Str("WBS"), charge_no |-> Str("CN")],
            8, 100, 800, month_str)

DataSheets ==
  LET header == [value |-> [c \in {<<1, 1>>, <<1, 3>>, <<1, 9>>} |->
                              CASE c[2] = 1 -> Str("Company")
                                [] c[2] = 3 -> Str("Employee")
                                [] OTHER -> Str("Hours")],
                 fill |-> [c \in {} |-> NoFill]]
      one == LedgerRow(header, 2, "December 2025")
      gap == set_value(set_value(LedgerRow(one, 4, "January 2026"), 3, 3,
                                 Str("Subtotal")), 3, 9, Num(8))
  IN {header, one, gap}

WsrBooks ==
  {[s \in {"CLIN Level Detail", "Data"} |->
      IF s = "Data" THEN data ELSE ClinSheet(layout, status)] :
     layout \in EmployeeLayouts, status \in WeekStatuses, data \in DataSheets}

\* the months rolled up: the sheet holds all, one or none of their weeks
RollupMonths == {<<2026, 2>>, <<2026, 1>>, <<2025, 2>>}

\* output_path: None, written "", or a path of its own
OutputPaths == {"", "out.xlsx"}

InitRollup ==
  /\ report = "TO1"
  /\ mappings = << >>
  /\ disk = [p \in {} |-> Absent]
  /\ pc = 0
  /\ call = NoCall
  /\ mem = NoMem
  /\ history = << >>
  /\ orch = NoOrch
  /\ source = ""
  /\ rows = << >>
  /\ employees = NoEmployees
  /\ applied = NoApplied
  /\ \E book \in WsrBooks, ym \in RollupMonths, output_path \in OutputPaths :
       /\ output_path # "" => next_empty_row(book["Data"], 2) = 2
       /\ wsr = [NoWsr EXCEPT !.pc = "open", !.calls = 1, !.wsr_path = "wsr.xlsx",
                              !.year = ym[1], !.month = ym[2],
                              !.output_path = output_path,
                              !.files = [p \in {"wsr.xlsx"} |-> book]]

\* "wb = app.books.open(wsr_path)"
RollupOpen ==
  /\ wsr.pc = "open"
  /\ wsr' = [wsr EXCEPT !.pc = "employees", !.wb = wsr.files[wsr.wsr_path],
                        !.before = wsr.files[wsr.wsr_path]]
  /\ UNCHANGED <<updVars, aggVars, orchVars, fnVars>>

\* the employee rows of the detail sheet
RollupEmployees ==
  /\ wsr.pc = "employees"
  /\ wsr' = [wsr EXCEPT
               !.pc = "weeks",
               !.employees = read_employees(wsr.wb["CLIN Level Detail"], << >>, 1)]
  /\ UNCHANGED <<updVars, aggVars, orchVars, fnVars>>

\* the weeks of the month and the hours of each employee over them
RollupWeeks ==
  /\ wsr.pc = "weeks"
  /\ LET weeks == get_weeks_in_month(wsr.year, wsr.month)
         names == {wsr.employees[i].name : i \in 1 .. Len(wsr.employees)}
     IN wsr' = [wsr EXCEPT
                  !.pc = "append",
                  !.monthly_hours = sum_weeks(wsr.wb["CLIN Level Detail"],
                                              wsr.employees, [e \in names |-> 0],
                                              weeks, wsr.year, 1)]
  /\ UNCHANGED <<updVars, aggVars, orchVars, fnVars>>

\* the next empty row of the ledger sheet and the rows added from it on
RollupAppend ==
  /\ wsr.pc = "append"
  /\ LET data_sheet == wsr.wb["Data"]
         month_str == strftime_B(Day(wsr.year, wsr.month, 1)) \o " " \o str(wsr.year)
         st == append_rows([data_sheet |-> data_sheet, rollup_data |-> << >>,
                            next_row |-> next_empty_row(data_sheet, 2)],
                           wsr.employees, wsr.monthly_hours, month_str, 1)
     IN wsr' = [wsr EXCEPT !.pc = "save", !.wb["Data"] = st.data_sheet,
                           !.rollup_data = st.rollup_data, !.next_row = st.next_row]
  /\ UNCHANGED <<updVars, aggVars, orchVars, fnVars>>

\* sum(...) over a dict's values or a list, from the i-th on
RECURSIVE float_sum(_, _, _)
float_sum(values, i, acc) ==
  IF i > Len(values) THEN acc ELSE float_sum(values, i + 1, float_add(acc, values[i]))

\* "wb.save(output_path)", the result, and "finally: wb.close(); app.quit()"
RollupSave(saved) ==
  /\ wsr.pc = "save"
  /\ LET output_path == IF wsr.output_path = "" THEN wsr.wsr_path ELSE wsr.output_path
         hours == [i \in 1 .. Len(wsr.employees) |->
                     wsr.monthly_hours[wsr.employees[i].name]]
         costs == [i \in 1 .. Len(wsr.rollup_data) |-> wsr.rollup_data[i].cost]
     IN wsr' = IF saved
               THEN [wsr EXCEPT
                       !.pc = "closed",
                       !.files = [p \in DOMAIN @ \cup {output_path} |->
                                    IF p = output_path THEN wsr.wb ELSE @[p]],
                       !.wb = NoWsr.wb,
                       !.result = [status |-> "success",
                                   total_hours |-> float_sum(hours, 1, 0),
                                   total_cost |-> float_sum(costs, 1, 0)]]
               ELSE [wsr EXCEPT !.pc = "closed", !.wb = NoWsr.wb,
                                !.result.status = "raised"]
  /\ UNCHANGED <<updVars, aggVars, orchVars, fnVars>>

\* rollup_monthly is called again, on the file the last call saved
RollupAgain ==
  /\ wsr.pc = "closed"
  /\ wsr.result.status = "success"
  /\ wsr.calls < MaxCalls
  /\ \E ym \in RollupMonths :
       wsr' = [NoWsr EXCEPT
                 !.pc = "open", !.calls = wsr.calls + 1,
                 !.wsr_path = IF wsr.output_path = "" THEN wsr.wsr_path
                              ELSE wsr.output_path,
                 !.year = ym[1], !.month = ym[2], !.files = wsr.files]
  /\ UNCHANGED <<updVars, aggVars, orchVars, fnVars>>

NextRollup ==
  \/ RollupAgain
  \/ RollupOpen
  \/ RollupEmployees
  \/ RollupWeeks
  \/ RollupAppend
  \/ \E saved \in BOOLEAN : RollupSave(saved)

SpecRollup == InitRollup /\ [][NextRollup]_vars

----------------------------------------------------------------------------
(* Properties of the monthly roll-up *)

\* the labels of the weeks of the month rolled up, in order
MonthWeekLabels ==
  LET weeks == get_weeks_in_month(wsr.year, wsr.month)
  IN [i \in 1 .. Len(weeks) |-> format_week_label(weeks[i][1], weeks[i][2])]

\* the column found for a week label, 0 when none is found
FoundColumn(sheet, week_label) ==
  LET found == WeekMatches(sheet, week_label)
  IN IF found = {} THEN 0 ELSE CHOOSE col \in found : \A other \in found : col <= other

\* the week is found and the status cell of its column equals "Actual"
Counted(sheet, week_label) ==
  /\ FoundColumn(sheet, week_label) # 0
  /\ cell_value(sheet, 2, FoundColumn(sheet, week_label)) = Str("Actual")

\* the employees of the detail sheet and the row of each
DetailEmployees(sheet) ==
  {cell_value(sheet, row, 2).s :
     row \in {r \in 4 .. 6 : /\ truthy(cell_value(sheet, r, 2))
                              /\ cell_value(sheet, r, 2) # Str("Employee")}}

DetailRow(sheet, e) ==
  CHOOSE row \in 4 .. 6 :
    /\ cell_value(sheet, row, 2) = Str(e)
    /\ \A r \in 4 .. 6 : cell_value(sheet, r, 2) = Str(e) => r <= row

\* the sum of the cells of a row over the counted weeks among the first i labels
RECURSIVE SumOfCounted(_, _, _, _)
SumOfCounted(sheet, row, labels, i) ==
  IF i = 0 THEN 0
  ELSE LET col == FoundColumn(sheet, labels[i])
       IN IF col # 0 /\ cell_value(sheet, 2, col) = Str("Actual")
          THEN float_add(SumOfCounted(sheet, row, labels, i - 1),
                         float_or_0(cell_value(sheet, row, col)))
          ELSE SumOfCounted(sheet, row, labels, i - 1)

\* C20: for every employee, the monthly total of the roll-up is the sum of the
\* employee's cells over exactly the week columns of the month that are found
\* and whose status cell in row 2 equals "Actual"; a week whose status is
\* anything else, and a week that is not found, contributes 0.
C20_MonthlyTotalIsSumOfActualWeeks ==
  wsr.pc = "append" =>
    LET sheet == wsr.wb["CLIN Level Detail"]
        labels == MonthWeekLabels
    IN /\ DOMAIN wsr.monthly_hours = DetailEmployees(sheet)
       /\ \A e \in DetailEmployees(sheet) :
            wsr.monthly_hours[e]
              = SumOfCounted(sheet, DetailRow(sheet, e), labels, Len(labels))

\* a month rolled up with a counted week, a week whose status is "Estimate"
\* and a week that is not found, for an employee with hours in both columns
C20_Witness ==
  /\ wsr.pc = "append"
  /\ wsr.year = 2026 /\ wsr.month = 2
  /\ LET sheet == wsr.wb["CLIN Level Detail"]
     IN /\ cell_value(sheet, 3, FirstWeekColumn + 1) = Str("Feb 2-6")
        /\ cell_value(sheet, 2, FirstWeekColumn + 1) = Str("Actual")
        /\ cell_value(sheet, 3, FirstWeekColumn + 2) = Str("Feb 9-13")
        /\ cell_value(sheet, 2, FirstWeekColumn + 2) = Str("Estimate")
        /\ cell_value(sheet, 4, FirstWeekColumn + 2) = Num(8)
        /\ WeekMatches(sheet, "Feb 16-20") = {}
        /\ WeekMatches(sheet, "Feb 23-27") = {}
        /\ cell_value(sheet, 4, 2) = Str("David Thompson")
        /\ wsr.monthly_hours["David Thompson"] = 8

\* the call returned its result: the workbook is saved
Succeeded == wsr.pc = "closed" /\ wsr.result.status = "success"

\* the ledger sheet as the call found it and as the call saved it
LedgerBefore == wsr.before["Data"]
LedgerSaved ==
  wsr.files[IF wsr.output_path = "" THEN wsr.wsr_path ELSE wsr.output_path]["Data"]

LedgerColumns == 1 .. 11

\* the rows of the ledger sheet in which the call left a cell other than it was
WrittenRows ==
  {row \in 1 .. max_row(LedgerSaved) :
     \E c \in LedgerColumns :
       cell_value(LedgerSaved, row, c) # cell_value(LedgerBefore, row, c)}

\* C21: after a roll-up that succeeds, the rows appended to the ledger sheet
\* are as many as the employees read from the detail sheet, and every employee
\* has exactly one of them, with the employee's monthly hours, a total of 0
\* included.
C21_OneRowPerEmployee ==
  Succeeded =>
    LET emps == DetailEmployees(wsr.before["CLIN Level Detail"])
    IN /\ Cardinality(WrittenRows) = Cardinality(emps)
       /\ \A e \in emps :
            Cardinality({row \in WrittenRows :
                           /\ cell_value(LedgerSaved, row, 3) = Str(e)
                           /\ cell_value(LedgerSaved, row, 9)
                                = Num(wsr.monthly_hours[e])}) = 1

\* no cell of the row holds a value
EntirelyEmpty(sheet, row) ==
  \A c \in 1 .. max_column(sheet) : cell_value(sheet, row, c) = None

\* the first row from row 2 on that is entirely empty
FirstEmptyRow(sheet) ==
  CHOOSE row \in 2 .. max_row(sheet) + 1 :
    /\ EntirelyEmpty(sheet, row)
    /\ \A r \in 2 .. row - 1 : ~EntirelyEmpty(sheet, r)

\* C22: the roll-up writes its first row at the first row from row 2 on of the
\* ledger sheet that is entirely empty and its further rows at the rows that
\* follow; no row that held data before the call is modified.
C22_AppendsAtFirstEmptyRow ==
  Succeeded =>
    /\ WrittenRows =
         FirstEmptyRow(LedgerBefore)
           .. (FirstEmptyRow(LedgerBefore) + Len(wsr.rollup_data)) - 1
    /\ \A row \in 1 .. max_row(LedgerBefore) :
         ~EntirelyEmpty(LedgerBefore, row) =>
           \A c \in LedgerColumns :
             cell_value(LedgerSaved, row, c) = cell_value(LedgerBefore, row, c)

\* the rate of an employee: the one the detail sheet holds in column E, the
\* default rate without one, 0 without either
ConfiguredOrDefaultRate(sheet, e) ==
  LET configured == cell_value(sheet, DetailRow(sheet, e), 5)
  IN IF configured # None THEN configured.n
     ELSE IF e \in DOMAIN EMPLOYEE_RATES THEN EMPLOYEE_RATES[e] ELSE 0

RECURSIVE SumOfCosts(_, _)
SumOfCosts(sheet, rows_added) ==
  IF rows_added = << >> THEN 0
  ELSE float_add(SumOfCosts(sheet, SubSeq(rows_added, 1, Len(rows_added) - 1)),
                 cell_value(sheet, rows_added[Len(rows_added)].row, 10).n)

\* C25: in every row the roll-up appends, the cost is hours times rate, the
\* rate being the employee's rate of the detail sheet when one is configured
\* and the default rate otherwise (0 for an employee in neither); the total
\* cost returned is the sum of the costs of the appended rows.
C25_CostIsHoursTimesRate ==
  Succeeded =>
    /\ \A i \in 1 .. Len(wsr.rollup_data) :
         LET added == wsr.rollup_data[i]
             rate == ConfiguredOrDefaultRate(wsr.before["CLIN Level Detail"],
                                             added.employee)
             hours == cell_value(LedgerSaved, added.row, 9).n
         IN /\ cell_value(LedgerSaved, added.row, 6) = Num(rate)
            /\ cell_value(LedgerSaved, added.row, 10) = Num(float_mul(hours, rate))
    /\ wsr.result.total_cost = SumOfCosts(LedgerSaved, wsr.rollup_data)

\* C27: after any sequence of roll-ups of one workbook, the ledger sheet holds
\* at most one row for an employee and a month.
C27_OneRowPerEmployeeAndMonth ==
  Succeeded =>
    \A r1, r2 \in 2 .. max_row(LedgerSaved) :
      (/\ cell_value(LedgerSaved, r1, 3) # None
       /\ cell_value(LedgerSaved, r1, 11) # None
       /\ cell_value(LedgerSaved, r1, 3) = cell_value(LedgerSaved, r2, 3)
       /\ cell_value(LedgerSaved, r1, 11) = cell_value(LedgerSaved, r2, 11))
        => r1 = r2

----------------------------------------------------------------------------
(* Properties of the calendar of the weekly report *)

\* the ranges returned, as dates
WeekRanges ==
  [i \in 1 .. Len(applied.weeks) |->
     [start |-> strptime_Y_m_d(applied.weeks[i][1]),
      end |-> strptime_Y_m_d(applied.weeks[i][2])]]

InMonth(date) ==
  /\ date.year = applied.year
  /\ date.month = applied.month
  /\ date.day \in 1 .. DaysInMonth(applied.year, applied.month)

\* the Monday to Friday days of the month
WorkDays ==
  {d \in 1 .. DaysInMonth(applied.year, applied.month) :
     weekday(Day(applied.year, applied.month, d)) <= 4}

\* C29: get_weeks_in_month returns ranges in chronological order that do not
\* overlap, with start <= end, inside the month, of Monday to Friday days of
\* one calendar week, that together cover every Monday to Friday day of the
\* month exactly once; a week over a month boundary is clipped to the first
\* or last day of the month.
C29_WeeksPartitionTheWorkDays ==
  (applied.op = "get_weeks_in_month" /\ applied.done) =>
    LET ranges == WeekRanges
        last == DaysInMonth(applied.year, applied.month)
    IN /\ \A i \in 1 .. Len(ranges) :
            /\ InMonth(ranges[i].start) /\ InMonth(ranges[i].end)
            /\ ranges[i].start.day <= ranges[i].end.day
            /\ weekday(ranges[i].end) <= 4
            /\ ranges[i].end.day - ranges[i].start.day
                 = weekday(ranges[i].end) - weekday(ranges[i].start)
            /\ weekday(ranges[i].start) = 0 \/ ranges[i].start.day = 1
            /\ weekday(ranges[i].end) = 4 \/ ranges[i].end.day = last
       /\ \A i \in 1 .. Len(ranges) - 1 : ranges[i].end.day < ranges[i + 1].start.day
       /\ \A d \in WorkDays :
            Cardinality({i \in 1 .. Len(ranges) :
                           ranges[i].start.day <= d /\ d <= ranges[i].end.day}) = 1

\* April 2026 starts on a Wednesday and ends on a Thursday: its first and its
\* last week are clipped
C29_Witness ==
  /\ applied.op = "get_weeks_in_month" /\ applied.done
  /\ applied.year = 2026 /\ applied.month = 4
  /\ Len(applied.weeks) = 5
  /\ applied.weeks[1] = << "2026-04-01", "2026-04-03" >>
  /\ applied.weeks[5] = << "2026-04-27", "2026-04-30" >>

----------------------------------------------------------------------------
(* Properties of the weekly hours source *)

\* the hours of the records of an employee among the first i records, summed
\* in the order of the records
RECURSIVE HoursOfEmployee(_, _, _)
HoursOfEmployee(timesheets, e, i) ==
  IF i = 0 THEN 0
  ELSE LET ts == timesheets[i]
       IN IF ts.user_id \in DOMAIN user_map /\ user_map[ts.user_id] = e
          THEN float_add(HoursOfEmployee(timesheets, e, i - 1),
                         (IF ts.has_duration THEN ts.duration ELSE 0) \div 3600)
          ELSE HoursOfEmployee(timesheets, e, i - 1)

\* C30: get_tsheets_hours_for_week returns, for each employee of the user map,
\* the sum of the durations of all records of that user, whatever their job
\* code, the excluded ones included; records of users that the user map does
\* not hold contribute to no employee.
C30_WeekHoursIgnoreJobCodes ==
  (applied.op = "get_tsheets_hours_for_week" /\ applied.done) =>
    LET names == {user_map[u] : u \in DOMAIN user_map}
    IN /\ DOMAIN applied.hours \subseteq names
       /\ \A e \in names :
            (IF e \in DOMAIN applied.hours THEN applied.hours[e] ELSE 0)
              = HoursOfEmployee(applied.timesheets, e, Len(applied.timesheets))
       /\ \A e \in names :
            e \in DOMAIN applied.hours <=>
              \E i \in 1 .. Len(applied.timesheets) :
                /\ applied.timesheets[i].user_id \in DOMAIN user_map
                /\ user_map[applied.timesheets[i].user_id] = e

\* a week with a record of a counted job code, a PTO record of the same user
\* and a record of a user the user map does not hold
C30_Witness ==
  /\ applied.op = "get_tsheets_hours_for_week" /\ applied.done
  /\ Len(applied.timesheets) = 3
  /\ applied.timesheets[1]
       = [user_id |-> "101", jobcode_id |-> 1, has_duration |-> TRUE, duration |-> 3600]
  /\ applied.timesheets[2]
       = [user_id |-> "101", jobcode_id |-> 2, has_duration |-> TRUE, duration |-> 3600]
  /\ applied.timesheets[3].user_id = "999"
  /\ applied.hours = [e \in {"Jane Doe"} |-> 2]

----------------------------------------------------------------------------
(* Report discovery (update_msrs.py, find_latest_msr) *)

\* "for _ in range(24)"
SearchMonths == 24

\* at most this many month folders exist under the completed folder
MaxFolders == 2

MSR_PATTERNS ==
  [t \in {"TO1", "TO8", "TO6"} |->
     CASE t = "TO1" -> << "TO1", "Athena TO1" >>
       [] t = "TO8" -> << "TO8", "Athena TO8" >>
       [] t = "TO6" -> << "TO6", "Athena TO6" >>]

\* get_month_folder_name(year, month): '01-Jan'
get_month_folder_name(year, month) ==
  zero_padded(str(month), 2) \o "-" \o strftime_b(Day(year, month, 1))

\* COMPLETED_DIR / str(year) / folder_name, below COMPLETED_DIR
folder_path(year, month) == str(year) \o "/" \o get_month_folder_name(year, month)

\* file.suffix: the name from its last dot on
suffix(name) ==
  LET dots == {i \in 1 .. Len(name) : slice(name, i, i) = "."}
      i == IF dots = {} THEN 0 ELSE CHOOSE d \in dots : \A other \in dots : other <= d
  IN IF 1 < i /\ i < Len(name) THEN slice(name, i, Len(name)) ELSE ""

\* mutant: the patterns are compared as they are written
matches_case_sensitive(file, patterns) ==
  /\ \E ext \in {suffix(file)} : lower(ext) \in {".xlsx", ".xlsm", ".xlsb"}
  /\ \E i \in 1 .. Len(patterns) : Contains(file, patterns[i])

\* "file.suffix.lower() in [...]" and "any(p.upper() in file_upper ...)"
matches(file, patterns) ==
  /\ \E ext \in {suffix(file)} : lower(ext) \in {".xlsx", ".xlsm", ".xlsb"}
  /\ \E file_upper \in {upper(file)} :
       \E i \in 1 .. Len(patterns) :
         \E p \in {upper(patterns[i])} : Contains(file_upper, p)

\* the file names of a folder: a report of each kind among other files; files
\* that are no report; a report named in small letters with a capital suffix
FolderContents ==
  { {"Athena TO1 Vertekal MSR Dec 2025.xlsx", "Athena TO8-Vertekal MSR_2025.12.xlsx",
     "TO1 notes.docx"},
    {"TO1 notes.docx", "to8.txt"},
    {"athena to1 vertekal msr.XLSM"} }

\* the file names above that find_latest_msr takes for a report of a type:
\* matches() of every name, evaluated once
MatchingFiles ==
  [msr_type \in DOMAIN MSR_PATTERNS |->
     {file \in UNION FolderContents : matches(file, MSR_PATTERNS[msr_type])}]

\* the months whose folder may exist: after the target month, the target
\* month, the months just before it, 24 months before it, 25 months before it
FolderMonths ==
  { <<2026, 2>>, <<2026, 1>>, <<2025, 12>>, <<2025, 1>>, <<2024, 1>>, <<2023, 12>> }

CompletedTrees ==
  UNION {[{folder_path(ym[1], ym[2]) : ym \in months} -> FolderContents] :
           months \in {m \in SUBSET FolderMonths : Cardinality(m) <= MaxFolders}}

TemplateFolders ==
  {[exists |-> FALSE, files |-> {}]}
    \cup {[exists |-> TRUE, files |-> files] : files \in FolderContents}

FindCalls ==
  {[NoApplied EXCEPT !.op = "find_latest_msr", !.text = msr_type,
                     !.year = ym[1], !.month = ym[2],
                     !.completed = completed, !.templates = templates] :
     msr_type \in {"TO1", "TO8"}, ym \in {<<2026, 1>>, <<2026, 2>>},
     completed \in CompletedTrees, templates \in TemplateFolders}

\* before the call
InitFind ==
  /\ applied = NoApplied
  /\ report = "TO1"
  /\ mappings = << >>
  /\ disk = [p \in {} |-> Absent]
  /\ pc = 0
  /\ call = NoCall
  /\ mem = NoMem
  /\ history = << >>
  /\ orch = NoOrch
  /\ source = ""
  /\ rows = << >>
  /\ employees = NoEmployees
  /\ wsr = NoWsr

\* "year = before_year; month = before_month - 1; if month < 1: ..."
FindStart ==
  /\ applied.op = ""
  /\ \E c \in FindCalls :
       applied' = [c EXCEPT
                     !.cursor = IF c.month - 1 < 1
                                THEN [year |-> c.year - 1, month |-> 12,
                                      left |-> SearchMonths]
                                ELSE [year |-> c.year, month |-> c.month - 1,
                                      left |-> SearchMonths]]
  /\ UNCHANGED <<updVars, aggVars, orchVars, wsrVars>>

\* one pass of "for _ in range(24)": the folder of the month is looked at, a
\* matching file of it is returned, or the month before is next
FindExamine ==
  /\ applied.op = "find_latest_msr" /\ ~applied.done
  /\ applied.cursor.left > 0
  /\ LET year == applied.cursor.year
         month == applied.cursor.month
         path == folder_path(year, month)
         found == IF path \in DOMAIN applied.completed
                  THEN applied.completed[path] \cap MatchingFiles[applied.text]
                  ELSE {}
         seen == Append(applied.examined, <<year, month>>)
     IN IF found # {}
        THEN \E file \in found :
               applied' = [applied EXCEPT !.done = TRUE, !.examined = seen,
                                          !.file = file, !.result.kind = "file"]
        ELSE applied' = [applied EXCEPT
                           !.examined = seen,
                           !.cursor = IF month - 1 < 1
                                      THEN [year |-> year - 1, month |-> 12,
                                            left |-> @.left - 1]
                                      ELSE [year |-> year, month |-> month - 1,
                                            left |-> @.left - 1]]
  /\ UNCHANGED <<updVars, aggVars, orchVars, wsrVars>>

\* "if TEMPLATES_DIR.exists(): ..." and "return None"
FindTemplate ==
  /\ applied.op = "find_latest_msr" /\ ~applied.done
  /\ applied.cursor.left = 0 /\ applied.examined # << >>
  /\ LET found == IF applied.templates.exists
                  THEN applied.templates.files \cap MatchingFiles[applied.text]
                  ELSE {}
     IN IF found # {}
        THEN \E file \in found :
               applied' = [applied EXCEPT !.done = TRUE, !.file = file,
                                          !.result.kind = "file"]
        ELSE applied' = [applied EXCEPT !.done = TRUE, !.result.kind = "None"]
  /\ UNCHANGED <<updVars, aggVars, orchVars, wsrVars>>

NextFind ==
  \/ FindStart
  \/ FindExamine
  \/ FindTemplate

\* a call that began runs to its return: nothing else runs beside it
SpecFind == InitFind /\ [][NextFind]_vars /\ WF_vars(FindExamine \/ FindTemplate)

----------------------------------------------------------------------------
(* Properties of the report discovery *)

\* the k-th month before the target month
MonthBefore(year, month, k) ==
  LET t == ((year * 12) + (month - 1)) - k
  IN << t \div 12, (t % 12) + 1 >>

\* the files of the k-th month before the target month that are a report of
\* the type: an .xlsx, .xlsm or .xlsb name that holds "TOn", in any case
ReportsOfMonth(k) ==
  LET ym == MonthBefore(applied.year, applied.month, k)
      path == folder_path(ym[1], ym[2])
  IN IF path \in DOMAIN applied.completed
     THEN {file \in applied.completed[path] :
             /\ \E ext \in {".xlsx", ".xlsm", ".xlsb", ".XLSX", ".XLSM", ".XLSB"} :
                  Len(file) > 5 /\ slice(file, Len(file) - 4, Len(file)) = ext
             /\ Contains(file, applied.text) \/ Contains(file, lower(applied.text))}
     ELSE {}

ReportsOfTemplates ==
  IF applied.templates.exists
  THEN {file \in applied.templates.files :
          /\ \E ext \in {".xlsx", ".xlsm", ".xlsb", ".XLSX", ".XLSM", ".XLSB"} :
               Len(file) > 5 /\ slice(file, Len(file) - 4, Len(file)) = ext
          /\ Contains(file, applied.text) \/ Contains(file, lower(applied.text))}
  ELSE {}

FindRuns == applied.op = "find_latest_msr"

\* what holds in every state of the discovery
FindLatestSafe ==
  FindRuns =>
    /\ Len(applied.examined) <= SearchMonths
    /\ \A k \in 1 .. Len(applied.examined) :
         applied.examined[k] = MonthBefore(applied.year, applied.month, k)
    /\ (applied.cursor.left > 0 \/ applied.examined # << >>) =>
         applied.cursor.month \in 1 .. 12
    /\ applied.done =>
         LET having == {k \in 1 .. SearchMonths : ReportsOfMonth(k) # {}}
         IN IF having # {}
            THEN LET k == CHOOSE first \in having : \A other \in having : first <= other
                 IN /\ Len(applied.examined) = k
                    /\ applied.result.kind = "file"
                    /\ applied.file \in ReportsOfMonth(k)
            ELSE /\ Len(applied.examined) = SearchMonths
                 /\ IF ReportsOfTemplates # {}
                    THEN applied.result.kind = "file"
                         /\ applied.file \in ReportsOfTemplates
                    ELSE applied.result.kind = "None"

\* C23: find_latest_msr looks at the completed folders of the 24 months before
\* the target month, newest first, never at the target month or a later one,
\* the month staying in 1..12 and the year going down exactly from January to
\* December; it returns a matching file of the most recent of these folders
\* that holds one, otherwise a matching template file, otherwise none; and it
\* always terminates.
C23_FindLatestSearchesBackwards == []FindLatestSafe /\ (FindRuns ~> applied.done)

\* the search passed the folders of the target month and of the month before,
\* which hold no report of the type, and returned the report of the folder 24
\* months back
C23_Witness ==
  /\ FindRuns /\ applied.done
  /\ applied.year = 2026 /\ applied.month = 1 /\ applied.text = "TO8"
  /\ DOMAIN applied.completed = {"2025/12-Dec", "2024/01-Jan"}
  /\ Len(applied.examined) = SearchMonths
  /\ applied.examined[1] = <<2025, 12>>
  /\ applied.examined[SearchMonths] = <<2024, 1>>
  /\ applied.file = "Athena TO8-Vertekal MSR_2025.12.xlsx"

----------------------------------------------------------------------------
(* Further properties of the updaters *)

\* the number a cell holds, 0 for a cell that holds none
number_in(ws, row, column) ==
  IF cell_value(ws, row, column).kind = "num" THEN cell_value(ws, row, column).n ELSE 0

\* the sum of the numbers the sheet holds in the given rows of a column, from
\* the first row down
RECURSIVE SumPresent(_, _, _)
SumPresent(ws, mapped_rows, column) ==
  IF mapped_rows = {} THEN 0
  ELSE LET last == CHOOSE r \in mapped_rows : \A r2 \in mapped_rows : r2 <= r
       IN float_add(SumPresent(ws, mapped_rows \ {last}, column),
                    number_in(ws, last, column))

\* C28: after a successful update_to1_msr the total-row cell at target_column
\* holds the sum of the values present in the mapped employee rows of that
\* column, also when two charge codes are mapped to one row.
C28_TotalIsSumOfPresent ==
  \A h \in Calls :
    (h.status = "ok" /\ report = "TO1") =>
      cell_value(Saved(h)["Extension Period MSR"], settings.TO1.total_row, h.target_column)
        = Num(SumPresent(Saved(h)["Extension Period MSR"],
                         {mappings[i].row : i \in MappedTo("TO1")}, h.target_column))

\* C26: an update applied to the output of a first update, with the same hours
\* and the same target column, returns normally (unless its save fails or it is
\* terminated) and saves a workbook with the same cell values and fills as the
\* first update saved, for all five report variants.
C26_UpdateIsIdempotent ==
  \A k \in 2 .. Len(history) :
    LET h1 == history[k - 1]
        h2 == history[k]
    IN (/\ h1.status = "ok"
        /\ h2.msr_path = h1.output_path
        /\ h2.timesheet_data = h1.timesheet_data
        /\ h2.target_column = h1.target_column
        /\ h2.status # "terminated"
        /\ h2.stage # "save")
       => /\ h2.status = "ok"
          /\ DOMAIN Saved(h2) = DOMAIN Saved(h1)
          /\ \A sh \in DOMAIN Saved(h2) :
               \A row \in 1 .. max_row(Saved(h2)[sh]), column \in Cols :
                 /\ cell_value(Saved(h2)[sh], row, column)
                      = cell_value(Saved(h1)[sh], row, column)
                 /\ cell_fill(Saved(h2)[sh], row, column)
                      = cell_fill(Saved(h1)[sh], row, column)

\* a report whose first update changed values and fills was updated again from
\* that output, with the same hours and column
C26_Witness ==
  \E k \in 2 .. Len(history) :
    LET h1 == history[k - 1]
        h2 == history[k]
    IN /\ h1.status = "ok" /\ h2.status = "ok"
       /\ h2.msr_path = h1.output_path
       /\ h2.timesheet_data = h1.timesheet_data
       /\ h2.target_column = h1.target_column
       /\ h1.total_hours > 0
       /\ \E sh \in DOMAIN Saved(h1) :
            /\ Saved(h1)[sh].value # h1.before[h1.msr_path].wb[sh].value
            /\ Saved(h1)[sh].fill # h1.before[h1.msr_path].wb[sh].fill

\* the cells of the i-th sheet of report R whose value an update in column
\* target_column may set: the status cell, the total cell of TO1, and the rows
\* of the charge codes mapped to R (and to this sheet) of employees assigned to R
CellsToSet(R, i, target_column) ==
  {<<StatusRowOf(R, i), target_column>>}
    \cup (IF R = "TO1" THEN {<<settings.TO1.total_row, target_column>>} ELSE {})
    \cup {<<mappings[j].row, target_column>> :
            j \in {k \in MappedTo(R) : SheetOfEntry(R, mappings[k]) = SheetsOf(R)[i]}}

\* what makes the work on the sheets fail whatever the foreign charge codes are:
\* a sheet the workbook lacks, no column before the target column, or a charge
\* code of the report itself that names no sheet of a two-sheet report
OwnFailure(R, h) ==
  \/ \E i \in 1 .. Len(SheetsOf(R)) : SheetsOf(R)[i] \notin DOMAIN h.before[h.msr_path].wb
  \/ h.target_column - 1 < 1
  \/ Len(SheetsOf(R)) = 2 /\ \E j \in MappedTo(R) : mappings[j].sheet = NoKey

\* C24: an update of report R sets the value of the status cell(s), of the
\* total cell where R has one and of the cells (mapped row, target_column) of
\* the charge codes mapped to R (and to the current sheet) of employees assigned
\* to R, and of no other cell; a charge code mapped to another report or of an
\* employee not assigned to R is not written and does not make the update fail.
C24_OnlyMappedCellsAreSet ==
  \A h \in Calls :
    /\ h.status = "ok" =>
         /\ {<<h.updates[j].sheet, h.updates[j].row>> : j \in 1 .. Len(h.updates)}
              = {<<SheetOfEntry(report, mappings[j]), mappings[j].row>> :
                   j \in MappedTo(report)}
         /\ \A i \in 1 .. Len(SheetsOf(report)) :
              LET sh == SheetsOf(report)[i]
                  old == h.before[h.msr_path].wb[sh]
                  new == Saved(h)[sh]
              IN \A c \in (DOMAIN old.value \cup DOMAIN new.value)
                            \ CellsToSet(report, i, h.target_column) :
                   cell_value(new, c[1], c[2]) = cell_value(old, c[1], c[2])
    /\ (h.status = "error" /\ h.stage = "sheet") => OwnFailure(report, h)

====
